---- MODULE Spec2Model ----
(***************************************************************************)
(* Voter verification and single-submission voting of server/index.js.    *)
(*                                                                         *)
(* The server is one Node.js process: the synchronous code between two    *)
(* awaits runs without interruption, and every `await readJsonFile` /     *)
(* `await writeJsonFile` suspends the handler.  A file operation takes     *)
(* effect at one instant (the action named ...Read... / ...Write...), and  *)
(* the handler's continuation runs at a later instant (the action named    *)
(* ...After... / ...Finish), so other handlers can run in between.         *)
(* A failed read makes readJsonFile return null; a failed write leaves the *)
(* file as it was and makes writeJsonFile return false.                    *)
(***************************************************************************)
EXTENDS Integers, Sequences, FiniteSets, TLC

\* ---- bounds of the model ----
NumKeys == 2
MaxVoteReqs == 2
MaxCheckReqs == 2
MaxTicks == 3
NumClients == 1

\* ---- program constants (milliseconds) ----
sessionTimeout == 10 * 60 * 1000
sweepInterval == 5 * 60 * 1000
windowMs == 60000
maxRequests == 20

VoterKeys == 1..NumKeys
VoteReqs == 1..MaxVoteReqs
CheckReqs == 1..MaxCheckReqs
Tokens == 1..MaxCheckReqs
NoToken == 0
Clients == 1..NumClients

Positions == {"headBoy", "headGirl", "sportsCaptain", "sportsViceCaptain"}
Candidates == {"Alice", "Bob"}
NoVote == "null"

\* the request bodies a client sends to POST /api/vote (xxxVote fields)
Sel(hb, hg, sc, svc) ==
    [p \in Positions |->
        CASE p = "headBoy" -> hb
          [] p = "headGirl" -> hg
          [] p = "sportsCaptain" -> sc
          [] p = "sportsViceCaptain" -> svc]
EmptySelection == Sel(NoVote, NoVote, NoVote, NoVote)
SelectionInputs ==
    { EmptySelection,
      Sel("Alice", NoVote, NoVote, NoVote),
      Sel("Bob", "Alice", NoVote, NoVote) }

emptyVotes == [p \in Positions |-> [c \in Candidates |-> 0]]
emptyStudents == << >>

VARIABLES
    settingsFile,      \* settings.json: votingEnabled
    votesFile,         \* votes.json: position -> candidate -> count
    studentsFile,      \* students.json: the voter roll
    verifiedSessions,  \* Map token -> [voterKey, timestamp]
    votingSessions,    \* Map voterKey -> [timestamp]
    nextToken,         \* generateSessionToken: tokens are never repeated
    now,               \* Date.now()
    vote,              \* POST /api/vote requests
    check,             \* POST /api/check-voter requests
    admin,             \* POST /api/settings and POST /api/admin/reset
    stats,             \* GET /api/admin/stats
    credited,          \* per key: successful vote responses since the last reset
    rateLimitMap,      \* Map clientIP -> [count, resetTime]
    rateLast,          \* the last decision of the rateLimit middleware
    admitted,          \* per client: requests admitted in the current rate window
    keyRun,            \* a run of validateVoterInfo and generateVoterKey on two profiles
    page,              \* VotingPage: the step shown and the sessionToken state
    cancelled,         \* the tokens the voter has cancelled
    revoked,           \* the tokens whose sessions a POST /api/settings has cleared
    late,              \* the vote requests that arrived with a revoked token
    swept,             \* the cleanup pass at the current time and the kinds of entries it kept
    readmitted         \* the client the limiter has just admitted after a used-up window

ghostVars == << revoked, late, swept, readmitted >>

auxVars == << rateLimitMap, rateLast, admitted, keyRun, page, cancelled, ghostVars >>

vars == << settingsFile, votesFile, studentsFile, verifiedSessions, votingSessions,
           nextToken, now, vote, check, admin, stats, credited, auxVars >>

\* ---- Map helpers ----
MapSet(m, k, v) == [x \in (DOMAIN m) \cup {k} |-> IF x = k THEN v ELSE m[x]]
MapDelete(m, k) == [x \in (DOMAIN m) \ {k} |-> m[x]]
MapClear == << >>

\* students.some(student => student.voterKey === voterKey)
hasVoted(students, voterKey) ==
    \E i \in 1..Len(students) : students[i].voterKey = voterKey

\* votingSessions.has(voterKey) in POST /api/check-voter
sessionInProgressNever(sessions, voterKey) == FALSE
sessionInProgress(sessions, voterKey) == voterKey \in DOMAIN sessions

\* votingSessions.has(voterKey) in POST /api/vote
submissionInProgress(sessions, voterKey) == voterKey \in DOMAIN sessions

\* !headBoyVote && !headGirlVote && !sportsCaptainVote && !sportsViceCaptainVote
NoSelection(sel) == \A p \in Positions : sel[p] = NoVote

\* increments of two
AddVotesTwice(votes, sel) ==
    [p \in Positions |->
        [c \in Candidates |-> IF sel[p] = c THEN votes[p][c] + 2 ELSE votes[p][c]]]

\* votes[p][v] = (votes[p][v] || 0) + 1 for each truthy selection
AddVotes(votes, sel) ==
    [p \in Positions |->
        [c \in Candidates |-> IF sel[p] = c THEN votes[p][c] + 1 ELSE votes[p][c]]]

\* students.push({ voterKey, ..., headBoyVote: headBoyVote || null, ... })
PushStudent(students, voterKey, sel, token) ==
    Append(students, [voterKey |-> voterKey, votes |-> sel, sessionToken |-> token])

IdleVote ==
    [pc |-> "idle", token |-> NoToken, sel |-> EmptySelection, readNull |-> FALSE,
     settings |-> FALSE, voterKey |-> 0, students |-> emptyStudents, votes |-> emptyVotes,
     votesSuccess |-> FALSE, studentsSuccess |-> FALSE, result |-> "none"]

IdleCheck ==
    [pc |-> "idle", voterKey |-> 0, readNull |-> FALSE, students |-> emptyStudents,
     token |-> NoToken, result |-> "none"]

IdleAdmin ==
    [pc |-> "idle", votingEnabled |-> FALSE, success |-> FALSE,
     votesSuccess |-> FALSE, studentsSuccess |-> FALSE]

IdleStats ==
    [pc |-> "idle", votes |-> emptyVotes, students |-> emptyStudents]

NoDecision == [ip |-> 0, outcome |-> "none"]
NoKeyRun == [pc |-> "none"]
IdlePage == [step |-> "verification", sessionToken |-> NoToken]

NoSweep == [at |-> -1, kept |-> {}]

InitServer ==
    /\ settingsFile = FALSE
    /\ votesFile = emptyVotes
    /\ studentsFile = emptyStudents
    /\ verifiedSessions = MapClear
    /\ votingSessions = MapClear
    /\ nextToken = 1
    /\ now = 0
    /\ vote = [r \in VoteReqs |-> IdleVote]
    /\ check = [c \in CheckReqs |-> IdleCheck]
    /\ admin = IdleAdmin
    /\ stats = IdleStats
    /\ credited = [k \in VoterKeys |-> 0]
    /\ rateLimitMap = MapClear
    /\ rateLast = NoDecision
    /\ admitted = MapClear
    /\ page = IdlePage
    /\ cancelled = {}
    /\ revoked = {}
    /\ late = {}
    /\ swept = NoSweep
    /\ readmitted = {}

Init ==
    /\ InitServer
    /\ keyRun = NoKeyRun

\* ---- POST /api/vote ----

\* res.json / res.status(...).json: the request ends; its token, key and outcome are
\* kept, and the selections when the request got as far as the commit
Respond(r, result) ==
    [vote EXCEPT ![r] = [IdleVote EXCEPT
        !.pc = "done", !.token = vote[r].token, !.voterKey = vote[r].voterKey,
        !.sel = IF result \in {"Success", "CommitFailed"} /\ vote[r].pc = "wroteStudents"
                THEN vote[r].sel ELSE EmptySelection,
        !.result = result]]

\* the request arrives and `await readJsonFile(settingsFile)` reads the file
\* (request slots are taken in order)
VoteReadSettings(r, tok, sel, ok) ==
    /\ vote[r].pc = "idle"
    /\ r > 1 => vote[r - 1].pc # "idle"
    /\ vote' = [vote EXCEPT ![r] = [IdleVote EXCEPT !.pc = "gotSettings", !.token = tok,
                                                    !.sel = sel, !.readNull = ~ok,
                                                    !.settings = (ok /\ settingsFile)]]
    /\ UNCHANGED << settingsFile, votesFile, studentsFile, verifiedSessions, votingSessions,
                    nextToken, now, check, admin, stats, credited, auxVars >>

\* the token check placed before the voting-enabled gate
VoteAfterSettingsTokenFirst(r) ==
    /\ vote[r].pc = "gotSettings"
    /\ vote' =
         IF vote[r].readNull THEN Respond(r, "CommitFailed")
         ELSE IF vote[r].token = NoToken \/ vote[r].token \notin DOMAIN verifiedSessions
              THEN Respond(r, "SessionExpired")
         ELSE IF ~vote[r].settings THEN Respond(r, "VotingDisabled")
         ELSE [vote EXCEPT ![r].pc = "readStudents",
                           ![r].voterKey = verifiedSessions[vote[r].token].voterKey]
    /\ UNCHANGED << settingsFile, votesFile, studentsFile, verifiedSessions, votingSessions,
                    nextToken, now, check, admin, stats, credited, auxVars >>

\* a voting-enabled gate that discards the session of a request it turns away
VoteAfterSettingsDropsSession(r) ==
    /\ vote[r].pc = "gotSettings"
    /\ vote' =
         IF vote[r].readNull THEN Respond(r, "CommitFailed")
         ELSE IF ~vote[r].settings THEN Respond(r, "VotingDisabled")
         ELSE IF vote[r].token = NoToken \/ vote[r].token \notin DOMAIN verifiedSessions
              THEN Respond(r, "SessionExpired")
         ELSE [vote EXCEPT ![r].pc = "readStudents",
                           ![r].voterKey = verifiedSessions[vote[r].token].voterKey]
    /\ verifiedSessions' =
         IF ~vote[r].readNull /\ ~vote[r].settings
         THEN MapDelete(verifiedSessions, vote[r].token)
         ELSE verifiedSessions
    /\ UNCHANGED << settingsFile, votesFile, studentsFile, votingSessions,
                    nextToken, now, check, admin, stats, credited, auxVars >>

\* the voting-enabled gate, the token check, and the issue of the students read
VoteAfterSettings(r) ==
    /\ vote[r].pc = "gotSettings"
    /\ vote' =
         IF vote[r].readNull THEN Respond(r, "CommitFailed")
         ELSE IF ~vote[r].settings THEN Respond(r, "VotingDisabled")
         ELSE IF vote[r].token = NoToken \/ vote[r].token \notin DOMAIN verifiedSessions
              THEN Respond(r, "SessionExpired")
         ELSE [vote EXCEPT ![r].pc = "readStudents",
                           ![r].voterKey = verifiedSessions[vote[r].token].voterKey]
    /\ UNCHANGED << settingsFile, votesFile, studentsFile, verifiedSessions, votingSessions,
                    nextToken, now, check, admin, stats, credited, auxVars >>

\* `await readJsonFile(studentsFile)` reads the file
VoteReadStudents(r, ok) ==
    /\ vote[r].pc = "readStudents"
    /\ vote' = [vote EXCEPT ![r].pc = "gotStudents", ![r].readNull = ~ok,
                            ![r].students = IF ok THEN studentsFile ELSE emptyStudents]
    /\ UNCHANGED << settingsFile, votesFile, studentsFile, verifiedSessions, votingSessions,
                    nextToken, now, check, admin, stats, credited, auxVars >>

\* the selection check placed before the lock test
VoteAfterStudentsSelectionFirst(r) ==
    /\ vote[r].pc = "gotStudents"
    /\ LET k == vote[r].voterKey IN
         IF vote[r].readNull
         THEN /\ vote' = Respond(r, "CommitFailed")
              /\ UNCHANGED << verifiedSessions, votingSessions >>
         ELSE IF hasVoted(vote[r].students, k)
         THEN /\ verifiedSessions' = MapDelete(verifiedSessions, vote[r].token)
              /\ vote' = Respond(r, "AlreadyVoted")
              /\ UNCHANGED votingSessions
         ELSE IF NoSelection(vote[r].sel)
         THEN /\ vote' = Respond(r, "NoSelection")
              /\ UNCHANGED << verifiedSessions, votingSessions >>
         ELSE IF submissionInProgress(votingSessions, k)
         THEN /\ vote' = Respond(r, "SubmissionInProgress")
              /\ UNCHANGED << verifiedSessions, votingSessions >>
         ELSE /\ votingSessions' = MapSet(votingSessions, k, [timestamp |-> now])
              /\ vote' = [vote EXCEPT ![r].pc = "readVotes"]
              /\ UNCHANGED verifiedSessions
    /\ UNCHANGED << settingsFile, votesFile, studentsFile, nextToken, now, check, admin,
                    stats, credited, auxVars >>

\* a hasVoted rejection that leaves the VerifiedSession in place
VoteAfterStudentsKeepsSession(r) ==
    /\ vote[r].pc = "gotStudents"
    /\ LET k == vote[r].voterKey IN
         IF vote[r].readNull
         THEN /\ vote' = Respond(r, "CommitFailed")
              /\ UNCHANGED << verifiedSessions, votingSessions >>
         ELSE IF hasVoted(vote[r].students, k)
         THEN /\ vote' = Respond(r, "AlreadyVoted")
              /\ UNCHANGED << verifiedSessions, votingSessions >>
         ELSE IF submissionInProgress(votingSessions, k)
         THEN /\ vote' = Respond(r, "SubmissionInProgress")
              /\ UNCHANGED << verifiedSessions, votingSessions >>
         ELSE IF NoSelection(vote[r].sel)
         THEN /\ vote' = Respond(r, "NoSelection")
              /\ UNCHANGED << verifiedSessions, votingSessions >>
         ELSE /\ votingSessions' = MapSet(votingSessions, k, [timestamp |-> now])
              /\ vote' = [vote EXCEPT ![r].pc = "readVotes"]
              /\ UNCHANGED verifiedSessions
    /\ UNCHANGED << settingsFile, votesFile, studentsFile, nextToken, now, check, admin,
                    stats, credited, auxVars >>

\* a lock test whose rejection removes the lock it met
VoteAfterStudentsBreaksLock(r) ==
    /\ vote[r].pc = "gotStudents"
    /\ LET k == vote[r].voterKey IN
         IF vote[r].readNull
         THEN /\ vote' = Respond(r, "CommitFailed")
              /\ UNCHANGED << verifiedSessions, votingSessions >>
         ELSE IF hasVoted(vote[r].students, k)
         THEN /\ verifiedSessions' = MapDelete(verifiedSessions, vote[r].token)
              /\ vote' = Respond(r, "AlreadyVoted")
              /\ UNCHANGED votingSessions
         ELSE IF submissionInProgress(votingSessions, k)
         THEN /\ votingSessions' = MapDelete(votingSessions, k)
              /\ vote' = Respond(r, "SubmissionInProgress")
              /\ UNCHANGED verifiedSessions
         ELSE IF NoSelection(vote[r].sel)
         THEN /\ vote' = Respond(r, "NoSelection")
              /\ UNCHANGED << verifiedSessions, votingSessions >>
         ELSE /\ votingSessions' = MapSet(votingSessions, k, [timestamp |-> now])
              /\ vote' = [vote EXCEPT ![r].pc = "readVotes"]
              /\ UNCHANGED verifiedSessions
    /\ UNCHANGED << settingsFile, votesFile, studentsFile, nextToken, now, check, admin,
                    stats, credited, auxVars >>

\* a handler without the hasVoted check on the roll it read
VoteAfterStudentsNoRollCheck(r) ==
    /\ vote[r].pc = "gotStudents"
    /\ LET k == vote[r].voterKey IN
         IF vote[r].readNull
         THEN /\ vote' = Respond(r, "CommitFailed")
              /\ UNCHANGED << verifiedSessions, votingSessions >>
         ELSE IF submissionInProgress(votingSessions, k)
         THEN /\ vote' = Respond(r, "SubmissionInProgress")
              /\ UNCHANGED << verifiedSessions, votingSessions >>
         ELSE IF NoSelection(vote[r].sel)
         THEN /\ vote' = Respond(r, "NoSelection")
              /\ UNCHANGED << verifiedSessions, votingSessions >>
         ELSE /\ votingSessions' = MapSet(votingSessions, k, [timestamp |-> now])
              /\ vote' = [vote EXCEPT ![r].pc = "readVotes"]
              /\ UNCHANGED verifiedSessions
    /\ UNCHANGED << settingsFile, votesFile, studentsFile, nextToken, now, check, admin,
                    stats, credited, auxVars >>

\* hasVoted check, lock test, selection check, lock set, and the issue of the votes read
VoteAfterStudents(r) ==
    /\ vote[r].pc = "gotStudents"
    /\ LET k == vote[r].voterKey IN
         IF vote[r].readNull
         THEN /\ vote' = Respond(r, "CommitFailed")
              /\ UNCHANGED << verifiedSessions, votingSessions >>
         ELSE IF hasVoted(vote[r].students, k)
         THEN /\ verifiedSessions' = MapDelete(verifiedSessions, vote[r].token)
              /\ vote' = Respond(r, "AlreadyVoted")
              /\ UNCHANGED votingSessions
         ELSE IF submissionInProgress(votingSessions, k)
         THEN /\ vote' = Respond(r, "SubmissionInProgress")
              /\ UNCHANGED << verifiedSessions, votingSessions >>
         ELSE IF NoSelection(vote[r].sel)
         THEN /\ vote' = Respond(r, "NoSelection")
              /\ UNCHANGED << verifiedSessions, votingSessions >>
         ELSE /\ votingSessions' = MapSet(votingSessions, k, [timestamp |-> now])
              /\ vote' = [vote EXCEPT ![r].pc = "readVotes"]
              /\ UNCHANGED verifiedSessions
    /\ UNCHANGED << settingsFile, votesFile, studentsFile, nextToken, now, check, admin,
                    stats, credited, auxVars >>

\* `await readJsonFile(votesFile)` reads the file
VoteReadVotes(r, ok) ==
    /\ vote[r].pc = "readVotes"
    /\ vote' = [vote EXCEPT ![r].pc = "gotVotes", ![r].readNull = ~ok,
                            ![r].votes = IF ok THEN votesFile ELSE emptyVotes]
    /\ UNCHANGED << settingsFile, votesFile, studentsFile, verifiedSessions, votingSessions,
                    nextToken, now, check, admin, stats, credited, auxVars >>

\* a failed votes read that answers without releasing the lock
VoteAfterVotesKeepsLock(r) ==
    /\ vote[r].pc = "gotVotes"
    /\ IF vote[r].readNull
       THEN vote' = Respond(r, "CommitFailed")
       ELSE vote' = [vote EXCEPT
                       ![r].pc = "writeVotes",
                       ![r].votes = AddVotes(vote[r].votes, vote[r].sel),
                       ![r].students = PushStudent(vote[r].students, vote[r].voterKey,
                                                   vote[r].sel, vote[r].token)]
    /\ UNCHANGED << settingsFile, votesFile, studentsFile, verifiedSessions, votingSessions,
                    nextToken, now, check, admin, stats, credited, auxVars >>

\* the increments, students.push, and the issue of the votes write; votes === null
\* throws at the first increment, the inner catch releases the lock
VoteAfterVotes(r) ==
    /\ vote[r].pc = "gotVotes"
    /\ IF vote[r].readNull
       THEN /\ votingSessions' = MapDelete(votingSessions, vote[r].voterKey)
            /\ vote' = Respond(r, "CommitFailed")
       ELSE /\ vote' = [vote EXCEPT
                          ![r].pc = "writeVotes",
                          ![r].votes = AddVotes(vote[r].votes, vote[r].sel),
                          ![r].students = PushStudent(vote[r].students, vote[r].voterKey,
                                                      vote[r].sel, vote[r].token)]
            /\ UNCHANGED votingSessions
    /\ UNCHANGED << settingsFile, votesFile, studentsFile, verifiedSessions, nextToken, now,
                    check, admin, stats, credited, auxVars >>

\* `await writeJsonFile(votesFile, votes)` writes the file; then the students write is issued
VoteWriteVotes(r, ok) ==
    /\ vote[r].pc = "writeVotes"
    /\ votesFile' = IF ok THEN vote[r].votes ELSE votesFile
    /\ vote' = [vote EXCEPT ![r].pc = "writeStudents", ![r].votesSuccess = ok]
    /\ UNCHANGED << settingsFile, studentsFile, verifiedSessions, votingSessions,
                    nextToken, now, check, admin, stats, credited, auxVars >>

\* `await writeJsonFile(studentsFile, students)` writes the file
VoteWriteStudents(r, ok) ==
    /\ vote[r].pc = "writeStudents"
    /\ studentsFile' = IF ok THEN vote[r].students ELSE studentsFile
    /\ vote' = [vote EXCEPT ![r].pc = "wroteStudents", ![r].studentsSuccess = ok]
    /\ UNCHANGED << settingsFile, votesFile, verifiedSessions, votingSessions,
                    nextToken, now, check, admin, stats, credited, auxVars >>

\* a success that leaves the VerifiedSession in place
VoteFinishKeepsSession(r) ==
    /\ vote[r].pc = "wroteStudents"
    /\ votingSessions' = MapDelete(votingSessions, vote[r].voterKey)
    /\ IF vote[r].votesSuccess /\ vote[r].studentsSuccess
       THEN /\ vote' = Respond(r, "Success")
            /\ credited' = [credited EXCEPT ![vote[r].voterKey] = @ + 1]
       ELSE /\ vote' = Respond(r, "CommitFailed")
            /\ UNCHANGED credited
    /\ UNCHANGED << settingsFile, votesFile, studentsFile, verifiedSessions, nextToken, now,
                    check, admin, stats, auxVars >>

\* a success cleanup that fails when the VerifiedSession is no longer in the map
VoteFinishNeedsSession(r) ==
    /\ vote[r].pc = "wroteStudents"
    /\ votingSessions' = MapDelete(votingSessions, vote[r].voterKey)
    /\ IF /\ vote[r].votesSuccess /\ vote[r].studentsSuccess
          /\ vote[r].token \in DOMAIN verifiedSessions
       THEN /\ verifiedSessions' = MapDelete(verifiedSessions, vote[r].token)
            /\ vote' = Respond(r, "Success")
            /\ credited' = [credited EXCEPT ![vote[r].voterKey] = @ + 1]
       ELSE /\ vote' = Respond(r, "CommitFailed")
            /\ UNCHANGED << verifiedSessions, credited >>
    /\ UNCHANGED << settingsFile, votesFile, studentsFile, nextToken, now, check, admin,
                    stats, auxVars >>

\* clean up sessions and answer success, or throw: the inner catch releases the lock
VoteFinish(r) ==
    /\ vote[r].pc = "wroteStudents"
    /\ votingSessions' = MapDelete(votingSessions, vote[r].voterKey)
    /\ IF vote[r].votesSuccess /\ vote[r].studentsSuccess
       THEN /\ verifiedSessions' = MapDelete(verifiedSessions, vote[r].token)
            /\ vote' = Respond(r, "Success")
            /\ credited' = [credited EXCEPT ![vote[r].voterKey] = @ + 1]
       ELSE /\ vote' = Respond(r, "CommitFailed")
            /\ UNCHANGED << verifiedSessions, credited >>
    /\ UNCHANGED << settingsFile, votesFile, studentsFile, nextToken, now, check, admin,
                    stats, auxVars >>

\* ---- POST /api/check-voter ----

CheckRespond(c, result, token) ==
    [check EXCEPT ![c] = [IdleCheck EXCEPT !.pc = "done", !.voterKey = check[c].voterKey,
                                           !.result = result, !.token = token]]

\* the request arrives with a valid profile hashing to k; the students read reads the file
\* (request slots are taken in order, and voter keys are numbered in order of first use)
CheckReadStudents(c, k, ok) ==
    /\ check[c].pc = "idle"
    /\ c > 1 => check[c - 1].pc # "idle"
    /\ \A j \in 1..(k - 1) : \E d \in CheckReqs : check[d].voterKey = j
    /\ check' = [check EXCEPT ![c] = [IdleCheck EXCEPT
                    !.pc = "gotStudents", !.voterKey = k, !.readNull = ~ok,
                    !.students = IF ok THEN studentsFile ELSE emptyStudents]]
    /\ UNCHANGED << settingsFile, votesFile, studentsFile, verifiedSessions, votingSessions,
                    nextToken, now, vote, admin, stats, credited, auxVars >>

\* hasVoted check, votingSessions check, session creation
CheckAfterStudents(c) ==
    /\ check[c].pc = "gotStudents"
    /\ LET k == check[c].voterKey IN
         IF check[c].readNull
         THEN /\ check' = CheckRespond(c, "VerificationFailed", NoToken)
              /\ UNCHANGED << verifiedSessions, nextToken >>
         ELSE IF hasVoted(check[c].students, k)
         THEN /\ check' = CheckRespond(c, "AlreadyVoted", NoToken)
              /\ UNCHANGED << verifiedSessions, nextToken >>
         ELSE IF sessionInProgress(votingSessions, k)
         THEN /\ check' = CheckRespond(c, "SessionInProgress", NoToken)
              /\ UNCHANGED << verifiedSessions, nextToken >>
         ELSE /\ verifiedSessions' = MapSet(verifiedSessions, nextToken,
                                            [voterKey |-> k, timestamp |-> now])
              /\ nextToken' = nextToken + 1
              /\ check' = CheckRespond(c, "Verified", nextToken)
    /\ UNCHANGED << settingsFile, votesFile, studentsFile, votingSessions, now, vote, admin,
                    stats, credited, auxVars >>

\* a session timer armed with twice the delay
SessionTimerLate(t) ==
    /\ t \in DOMAIN verifiedSessions
    /\ now - verifiedSessions[t].timestamp >= 2 * sessionTimeout
    /\ verifiedSessions' = MapDelete(verifiedSessions, t)
    /\ UNCHANGED << settingsFile, votesFile, studentsFile, votingSessions, nextToken, now,
                    vote, check, admin, stats, credited, auxVars >>

\* setTimeout(() => verifiedSessions.delete(sessionToken), 10 * 60 * 1000)
SessionTimer(t) ==
    /\ t \in DOMAIN verifiedSessions
    /\ now - verifiedSessions[t].timestamp >= sessionTimeout
    /\ verifiedSessions' = MapDelete(verifiedSessions, t)
    /\ UNCHANGED << settingsFile, votesFile, studentsFile, votingSessions, nextToken, now,
                    vote, check, admin, stats, credited, auxVars >>

\* ---- POST /api/settings ----

PostSettingsWrite(votingEnabled, ok) ==
    /\ admin.pc = "idle"
    /\ settingsFile' = IF ok THEN votingEnabled ELSE settingsFile
    /\ admin' = [IdleAdmin EXCEPT !.pc = "settingsWritten", !.votingEnabled = votingEnabled,
                                  !.success = ok]
    /\ UNCHANGED << votesFile, studentsFile, verifiedSessions, votingSessions, nextToken,
                    now, vote, check, stats, credited, auxVars >>

\* a disabling POST that clears the locks and leaves the VerifiedSessions
PostSettingsFinishKeepsSessions ==
    /\ admin.pc = "settingsWritten"
    /\ IF admin.success /\ ~admin.votingEnabled
       THEN /\ votingSessions' = MapClear
            /\ revoked' = revoked \cup DOMAIN verifiedSessions
       ELSE UNCHANGED << votingSessions, revoked >>
    /\ admin' = IdleAdmin
    /\ UNCHANGED << settingsFile, votesFile, studentsFile, verifiedSessions, nextToken, now,
                    vote, check, stats, credited, rateLimitMap, rateLast, admitted,
                    keyRun, page, cancelled, late, swept,
                    readmitted >>

\* the continuation of the settings write: the maps are cleared when voting was
\* switched off, and the answer is sent
PostSettingsFinish ==
    /\ admin.pc = "settingsWritten"
    /\ IF admin.success /\ ~admin.votingEnabled
       THEN /\ votingSessions' = MapClear
            /\ verifiedSessions' = MapClear
            /\ revoked' = revoked \cup DOMAIN verifiedSessions
       ELSE UNCHANGED << votingSessions, verifiedSessions, revoked >>
    /\ admin' = IdleAdmin
    /\ UNCHANGED << settingsFile, votesFile, studentsFile, nextToken, now, vote, check,
                    stats, credited, rateLimitMap, rateLast, admitted, keyRun, page,
                    cancelled, late, swept, readmitted >>

\* ---- POST /api/admin/reset ----

ResetWriteVotes(ok) ==
    /\ admin.pc = "idle"
    /\ votesFile' = IF ok THEN emptyVotes ELSE votesFile
    /\ admin' = [IdleAdmin EXCEPT !.pc = "resetWriteStudents", !.votesSuccess = ok]
    /\ UNCHANGED << settingsFile, studentsFile, verifiedSessions, votingSessions, nextToken,
                    now, vote, check, stats, credited, auxVars >>

ResetWriteStudents(ok) ==
    /\ admin.pc = "resetWriteStudents"
    /\ studentsFile' = IF ok THEN emptyStudents ELSE studentsFile
    /\ admin' = [admin EXCEPT !.pc = "resetWroteStudents", !.studentsSuccess = ok]
    /\ UNCHANGED << settingsFile, votesFile, verifiedSessions, votingSessions, nextToken,
                    now, vote, check, stats, credited, auxVars >>

ResetFinish ==
    /\ admin.pc = "resetWroteStudents"
    /\ votingSessions' = MapClear
    /\ verifiedSessions' = MapClear
    /\ rateLimitMap' = MapClear
    /\ credited' = [k \in VoterKeys |-> 0]
    /\ admitted' = MapClear
    /\ admin' = IdleAdmin
    /\ UNCHANGED << settingsFile, votesFile, studentsFile, nextToken, now, vote, check,
                    stats, rateLast, keyRun, page, cancelled, ghostVars >>

\* ---- GET /api/admin/stats ----

StatsReadVotes ==
    /\ stats.pc \in {"idle", "responded"}
    /\ stats' = [IdleStats EXCEPT !.pc = "readStudents", !.votes = votesFile]
    /\ UNCHANGED << settingsFile, votesFile, studentsFile, verifiedSessions, votingSessions,
                    nextToken, now, vote, check, admin, credited, auxVars >>

StatsReadStudents ==
    /\ stats.pc = "readStudents"
    /\ stats' = [stats EXCEPT !.pc = "responded", !.students = studentsFile]
    /\ UNCHANGED << settingsFile, votesFile, studentsFile, verifiedSessions, votingSessions,
                    nextToken, now, vote, check, admin, credited, auxVars >>

\* ---- validateVoterInfo and generateVoterKey ----

\* a string is a sequence of characters; a field that is absent from the body and a
\* field that is the empty string are both falsy and both written << >>
Letters == {"a", "b", "x", "A", "B", "X"}

toLowerCaseChar(c) ==
    CASE c = "A" -> "a" [] c = "B" -> "b" [] c = "X" -> "x" [] OTHER -> c

toUpperCaseChar(c) ==
    CASE c = "a" -> "A" [] c = "b" -> "B" [] c = "x" -> "X" [] OTHER -> c

toLowerCase(s) == [i \in 1..Len(s) |-> toLowerCaseChar(s[i])]
toUpperCase(s) == [i \in 1..Len(s) |-> toUpperCaseChar(s[i])]

RECURSIVE trimStart(_)
trimStart(s) == IF s # << >> /\ Head(s) = " " THEN trimStart(Tail(s)) ELSE s

RECURSIVE trimEnd(_)
trimEnd(s) ==
    IF s # << >> /\ s[Len(s)] = " " THEN trimEnd(SubSeq(s, 1, Len(s) - 1)) ELSE s

trim(s) == trimEnd(trimStart(s))

\* /^[a-zA-Z\s\-'.]+$/
NameChars == Letters \cup {" ", "-", "'", "."}

\* new Date(dateOfBirth): the dates of birth a body carries, and the age in years each
\* gives on the day of the election; "not-a-date" parses to an invalid Date
NoDate == ""
DateInputs == {NoDate, "2015-06-01", "not-a-date", "1980-01-01"}
IsNaNDate(d) == d = "not-a-date"
Age(d) == CASE d = "2015-06-01" -> 11 [] d = "1980-01-01" -> 46 [] OTHER -> 0

\* a validation that does not require the division
validateVoterInfoDivisionOptional(voterInfo) ==
    LET cleanName == trim(voterInfo.name)
        cleanClass == toUpperCase(trim(voterInfo.class))
    IN  IF \/ voterInfo.name = << >> \/ voterInfo.class = << >>
           \/ voterInfo.dateOfBirth = NoDate
        THEN FALSE
        ELSE IF cleanName = << >> \/ Len(cleanName) < 2 \/ Len(cleanName) > 100
        THEN FALSE
        ELSE IF \E i \in 1..Len(cleanName) : cleanName[i] \notin NameChars
        THEN FALSE
        ELSE IF cleanClass = << >> \/ Len(cleanClass) > 10
        THEN FALSE
        ELSE IF IsNaNDate(voterInfo.dateOfBirth)
        THEN FALSE
        ELSE IF Age(voterInfo.dateOfBirth) < 3 \/ Age(voterInfo.dateOfBirth) > 30
        THEN FALSE
        ELSE TRUE

validateVoterInfo(voterInfo) ==
    LET cleanName == trim(voterInfo.name)
        cleanClass == toUpperCase(trim(voterInfo.class))
        cleanDivision == toUpperCase(trim(voterInfo.division))
    IN  IF \/ voterInfo.name = << >> \/ voterInfo.class = << >>
           \/ voterInfo.division = << >> \/ voterInfo.dateOfBirth = NoDate
        THEN FALSE
        ELSE IF cleanName = << >> \/ Len(cleanName) < 2 \/ Len(cleanName) > 100
        THEN FALSE
        ELSE IF \E i \in 1..Len(cleanName) : cleanName[i] \notin NameChars
        THEN FALSE
        ELSE IF cleanClass = << >> \/ Len(cleanClass) > 10
        THEN FALSE
        ELSE IF cleanDivision = << >> \/ Len(cleanDivision) > 5
        THEN FALSE
        ELSE IF IsNaNDate(voterInfo.dateOfBirth)
        THEN FALSE
        ELSE IF Age(voterInfo.dateOfBirth) < 3 \/ Age(voterInfo.dateOfBirth) > 30
        THEN FALSE
        ELSE TRUE

\* crypto.createHash('sha256').update(rawKey).digest('hex'): different inputs are
\* taken to give different digests
sha256(rawKey) == [sha256 |-> rawKey]

generateVoterKey(name, studentClass, division, dateOfBirth) ==
    sha256(trim(toLowerCase(name)) \o << "_" >> \o trim(studentClass) \o << "_" >>
           \o trim(division) \o << "_" >> \o << dateOfBirth >>)

\* the bodies a client sends to POST /api/check-voter
NameInputs ==
    { << >>, << "a" >>, << "a", "b" >>, << "A", "b" >>, << " ", "a", "b" >>,
      << "a", "b", " " >>, << "a", "1" >> }
ClassInputs == { << >>, << " " >>, << "x" >>, << "X" >>, << " ", "x" >> }
DivisionInputs == { << >>, << "a" >>, << "A" >>, << "a", " " >> }
ProfileInputs ==
    [name : NameInputs, class : ClassInputs, division : DivisionInputs,
     dateOfBirth : DateInputs]

\* a valid body, and bodies that lack a field or carry an unusable one
ValidBody ==
    [name |-> << "a", "b" >>, class |-> << "x" >>, division |-> << "a" >>,
     dateOfBirth |-> "2015-06-01"]
BodyInputs ==
    { ValidBody,
      [ValidBody EXCEPT !.name = << >>],
      [ValidBody EXCEPT !.class = << >>],
      [ValidBody EXCEPT !.division = << >>],
      [ValidBody EXCEPT !.dateOfBirth = NoDate],
      [ValidBody EXCEPT !.name = << "a" >>],
      [ValidBody EXCEPT !.class = << " " >>],
      [ValidBody EXCEPT !.dateOfBirth = "not-a-date"] }

\* validateVoterInfo and generateVoterKey applied to the two profiles of a run
InitKey ==
    /\ InitServer
    /\ keyRun \in [pc : {"input"}, p : ProfileInputs, q : ProfileInputs]

GenerateKeys ==
    /\ keyRun.pc = "input"
    /\ keyRun' =
         [pc |-> "done", p |-> keyRun.p, q |-> keyRun.q,
          validP |-> validateVoterInfo(keyRun.p),
          validQ |-> validateVoterInfo(keyRun.q),
          keyP |-> generateVoterKey(keyRun.p.name, keyRun.p.class, keyRun.p.division,
                                    keyRun.p.dateOfBirth),
          keyQ |-> generateVoterKey(keyRun.q.name, keyRun.q.class, keyRun.q.division,
                                    keyRun.q.dateOfBirth)]
    /\ UNCHANGED << settingsFile, votesFile, studentsFile, verifiedSessions, votingSessions,
                    nextToken, now, vote, check, admin, stats, credited, rateLimitMap,
                    rateLast, admitted, page, cancelled, ghostVars >>

\* POST /api/check-voter with body voterInfo: a body that fails validateVoterInfo is
\* answered 400 at once; a valid one hashes to a key k (keys are numbered in order of
\* first use) and the handler goes on to the students read
CheckVoter(c, voterInfo, ok) ==
    IF validateVoterInfo(voterInfo)
    THEN \E k \in VoterKeys : CheckReadStudents(c, k, ok)
    ELSE /\ check[c].pc = "idle"
         /\ c > 1 => check[c - 1].pc # "idle"
         /\ check' = CheckRespond(c, "InvalidProfile", NoToken)
         /\ UNCHANGED << settingsFile, votesFile, studentsFile, verifiedSessions,
                         votingSessions, nextToken, now, vote, admin, stats, credited,
                         auxVars >>

\* ---- the rateLimit middleware of POST /api/check-voter and POST /api/vote ----

\* a limiter that rejects only above maxRequests
rateLimitAboveMax(map, ip, t) ==
    IF ip \notin DOMAIN map \/ t > map[ip].resetTime
    THEN [map |-> MapSet(map, ip, [count |-> 1, resetTime |-> t + windowMs]),
          outcome |-> "next"]
    ELSE IF map[ip].count > maxRequests
    THEN [map |-> map, outcome |-> "RateLimited"]
    ELSE [map |-> [map EXCEPT ![ip].count = @ + 1], outcome |-> "next"]

\* a limiter that counts the requests it rejects
rateLimitCountsRejected(map, ip, t) ==
    IF ip \notin DOMAIN map \/ t > map[ip].resetTime
    THEN [map |-> MapSet(map, ip, [count |-> 1, resetTime |-> t + windowMs]),
          outcome |-> "next"]
    ELSE IF map[ip].count >= maxRequests
    THEN [map |-> [map EXCEPT ![ip].count = @ + 1], outcome |-> "RateLimited"]
    ELSE [map |-> [map EXCEPT ![ip].count = @ + 1], outcome |-> "next"]

\* a limiter whose rejection moves the reset time of the window back by windowMs
rateLimitExtendsWindow(map, ip, t) ==
    IF ip \notin DOMAIN map \/ t > map[ip].resetTime
    THEN [map |-> MapSet(map, ip, [count |-> 1, resetTime |-> t + windowMs]),
          outcome |-> "next"]
    ELSE IF map[ip].count >= maxRequests
    THEN [map |-> [map EXCEPT ![ip].resetTime = @ + windowMs], outcome |-> "RateLimited"]
    ELSE [map |-> [map EXCEPT ![ip].count = @ + 1], outcome |-> "next"]

\* the decision for a request of client ip at time t: the new map, and next() or 429
rateLimit(map, ip, t) ==
    IF ip \notin DOMAIN map \/ t > map[ip].resetTime
    THEN [map |-> MapSet(map, ip, [count |-> 1, resetTime |-> t + windowMs]),
          outcome |-> "next"]
    ELSE IF map[ip].count >= maxRequests
    THEN [map |-> map, outcome |-> "RateLimited"]
    ELSE [map |-> [map EXCEPT ![ip].count = @ + 1], outcome |-> "next"]

\* the requests admitted for ip in the window that began with the first request
\* admitted after the previous window ended or was cleared
CountAdmitted(ip) ==
    IF ip \in DOMAIN admitted /\ now <= admitted[ip].windowEnd
    THEN [admitted EXCEPT ![ip].n = @ + 1]
    ELSE MapSet(admitted, ip, [windowEnd |-> now + windowMs, n |-> 1])

\* a request of client ip reaches the middleware; next() hands it to its handler
RateLimit(ip) ==
    /\ LET d == rateLimit(rateLimitMap, ip, now) IN
         /\ rateLimitMap' = d.map
         /\ rateLast' = [ip |-> ip, outcome |-> d.outcome]
         /\ admitted' = IF d.outcome = "next" THEN CountAdmitted(ip) ELSE admitted
         /\ readmitted' = IF /\ d.outcome = "next"
                              /\ ip \in DOMAIN rateLimitMap
                              /\ rateLimitMap[ip].count >= maxRequests
                           THEN {ip} ELSE {}
    /\ UNCHANGED << settingsFile, votesFile, studentsFile, verifiedSessions, votingSessions,
                    nextToken, now, vote, check, admin, stats, credited, keyRun, page,
                    cancelled, revoked, late, swept >>

\* ---- time and the periodic cleanup ----

Tick ==
    /\ now < MaxTicks * sweepInterval
    /\ now' = now + sweepInterval
    /\ swept' = NoSweep
    /\ UNCHANGED << settingsFile, votesFile, studentsFile, verifiedSessions, votingSessions,
                    nextToken, vote, check, admin, stats, credited, rateLimitMap, rateLast,
                    admitted, keyRun, page, cancelled, revoked, late, readmitted >>

Expired(m) == { x \in DOMAIN m : now - m[x].timestamp > sessionTimeout }

ExpiredWindows == { ip \in DOMAIN rateLimitMap : now > rateLimitMap[ip].resetTime }

\* the kinds of entries that a cleanup pass at this moment finds unexpired
Retained ==
    (IF DOMAIN verifiedSessions \ Expired(verifiedSessions) # {} THEN {"session"} ELSE {})
    \cup (IF DOMAIN votingSessions \ Expired(votingSessions) # {} THEN {"lock"} ELSE {})
    \cup (IF DOMAIN rateLimitMap \ ExpiredWindows # {} THEN {"window"} ELSE {})

\* a cleanup pass that leaves the voting locks alone
SweeperSparesLocks ==
    /\ Expired(verifiedSessions) \cup ExpiredWindows # {}
    /\ verifiedSessions' = [t \in (DOMAIN verifiedSessions) \ Expired(verifiedSessions)
                              |-> verifiedSessions[t]]
    /\ rateLimitMap' = [ip \in (DOMAIN rateLimitMap) \ ExpiredWindows |-> rateLimitMap[ip]]
    /\ swept' = [at |-> now, kept |-> Retained]
    /\ UNCHANGED << settingsFile, votesFile, studentsFile, votingSessions, nextToken, now,
                    vote, check, admin, stats, credited, rateLast, admitted, keyRun,
                    page, cancelled, revoked, late, readmitted >>

ExpiredAtTimeout(m) == { x \in DOMAIN m : now - m[x].timestamp >= sessionTimeout }

\* a cleanup pass that removes the sessions and the locks from the age sessionTimeout on
SweeperAtTimeout ==
    /\ ExpiredAtTimeout(verifiedSessions) \cup ExpiredAtTimeout(votingSessions)
          \cup ExpiredWindows # {}
    /\ verifiedSessions' = [t \in (DOMAIN verifiedSessions) \ ExpiredAtTimeout(verifiedSessions)
                              |-> verifiedSessions[t]]
    /\ votingSessions' = [k \in (DOMAIN votingSessions) \ ExpiredAtTimeout(votingSessions)
                              |-> votingSessions[k]]
    /\ rateLimitMap' = [ip \in (DOMAIN rateLimitMap) \ ExpiredWindows |-> rateLimitMap[ip]]
    /\ swept' = [at |-> now, kept |-> Retained]
    /\ UNCHANGED << settingsFile, votesFile, studentsFile, nextToken, now, vote, check,
                    admin, stats, credited, rateLast, admitted, keyRun, page,
                    cancelled, revoked, late, readmitted >>

\* the setInterval callback, every 5 minutes
Sweeper ==
    /\ Expired(verifiedSessions) \cup Expired(votingSessions) \cup ExpiredWindows # {}
    /\ verifiedSessions' = [t \in (DOMAIN verifiedSessions) \ Expired(verifiedSessions)
                              |-> verifiedSessions[t]]
    /\ votingSessions' = [k \in (DOMAIN votingSessions) \ Expired(votingSessions)
                              |-> votingSessions[k]]
    /\ rateLimitMap' = [ip \in (DOMAIN rateLimitMap) \ ExpiredWindows |-> rateLimitMap[ip]]
    /\ swept' = [at |-> now, kept |-> Retained]
    /\ UNCHANGED << settingsFile, votesFile, studentsFile, nextToken, now, vote, check,
                    admin, stats, credited, rateLast, admitted, keyRun, page,
                    cancelled, revoked, late, readmitted >>

IssuedTokens == {NoToken} \cup (1..(nextToken - 1))

\* ---- the handlers, by whether file operations may fail ----

VoteStep(r, Oks) ==
    \/ \E tok \in IssuedTokens, sel \in SelectionInputs, ok \in Oks :
          VoteReadSettings(r, tok, sel, ok)
    \/ VoteAfterSettings(r)
    \/ \E ok \in Oks : VoteReadStudents(r, ok)
    \/ VoteAfterStudents(r)
    \/ \E ok \in Oks : VoteReadVotes(r, ok)
    \/ VoteAfterVotes(r)
    \/ \E ok \in Oks : VoteWriteVotes(r, ok)
    \/ \E ok \in Oks : VoteWriteStudents(r, ok)
    \/ VoteFinish(r)

CheckStep(c, Oks) ==
    \/ \E k \in VoterKeys, ok \in Oks : CheckReadStudents(c, k, ok)
    \/ CheckAfterStudents(c)

SettingsStep(Values, Oks) ==
    \/ \E v \in Values, ok \in Oks : PostSettingsWrite(v, ok)
    \/ PostSettingsFinish

ResetStep(Oks) ==
    \/ \E ok \in Oks : ResetWriteVotes(ok)
    \/ \E ok \in Oks : ResetWriteStudents(ok)
    \/ ResetFinish

StatsStep ==
    \/ StatsReadVotes
    \/ StatsReadStudents

TimeStep ==
    \/ Tick
    \/ \E t \in Tokens : SessionTimer(t)
    \/ Sweeper

\* every handler, every outcome of every file operation
Next ==
    \/ \E r \in VoteReqs : VoteStep(r, BOOLEAN)
    \/ \E c \in CheckReqs : CheckStep(c, BOOLEAN)
    \/ SettingsStep(BOOLEAN, BOOLEAN)
    \/ ResetStep(BOOLEAN)
    \/ StatsStep
    \/ TimeStep

Spec == Init /\ [][Next]_vars

\* voters only: the admin enables voting, no file operation fails
NextCore ==
    \/ \E r \in VoteReqs : VoteStep(r, {TRUE})
    \/ \E c \in CheckReqs : CheckStep(c, {TRUE})
    \/ SettingsStep({TRUE}, {TRUE})

SpecCore == Init /\ [][NextCore]_vars

\* voters and the settings switch (enable and disable)
NextSettings ==
    \/ \E r \in VoteReqs : VoteStep(r, {TRUE})
    \/ \E c \in CheckReqs : CheckStep(c, {TRUE})
    \/ SettingsStep(BOOLEAN, {TRUE})

SpecSettings == Init /\ [][NextSettings]_vars

\* voters and the admin reset
NextReset ==
    \/ \E r \in VoteReqs : VoteStep(r, {TRUE})
    \/ \E c \in CheckReqs : CheckStep(c, {TRUE})
    \/ SettingsStep({TRUE}, {TRUE})
    \/ ResetStep({TRUE})

SpecReset == Init /\ [][NextReset]_vars

\* voters and the stats reader
NextStats ==
    \/ \E r \in VoteReqs : VoteStep(r, {TRUE})
    \/ \E c \in CheckReqs : CheckStep(c, {TRUE})
    \/ SettingsStep({TRUE}, {TRUE})
    \/ StatsStep

SpecStats == Init /\ [][NextStats]_vars

\* voters, with file operations that may fail
NextFaults ==
    \/ \E r \in VoteReqs : VoteStep(r, BOOLEAN)
    \/ \E c \in CheckReqs : CheckStep(c, BOOLEAN)
    \/ SettingsStep({TRUE}, BOOLEAN)

SpecFaults == Init /\ [][NextFaults]_vars

\* one verification, then vote submissions that all carry its token, sent while the
\* token is live and voting is enabled, each with a non-empty selection
VoteSameToken(r) ==
    /\ settingsFile
    /\ 1 \in DOMAIN verifiedSessions
    /\ \E sel \in SelectionInputs \ {EmptySelection} : VoteReadSettings(r, 1, sel, TRUE)

NextSameToken ==
    \/ \E r \in VoteReqs : VoteSameToken(r)
    \/ \E r \in VoteReqs : VoteAfterSettings(r)
    \/ \E r \in VoteReqs : VoteReadStudents(r, TRUE)
    \/ \E r \in VoteReqs : VoteAfterStudents(r)
    \/ \E r \in VoteReqs : VoteReadVotes(r, TRUE)
    \/ \E r \in VoteReqs : VoteAfterVotes(r)
    \/ \E r \in VoteReqs : VoteWriteVotes(r, TRUE)
    \/ \E r \in VoteReqs : VoteWriteStudents(r, TRUE)
    \/ \E r \in VoteReqs : VoteFinish(r)
    \/ CheckStep(1, {TRUE})
    \/ SettingsStep({TRUE}, {TRUE})

SpecSameToken == Init /\ [][NextSameToken]_vars

\* the same submissions, with check-voter requests for any key arriving at any time
NextRetry ==
    \/ \E r \in VoteReqs : VoteSameToken(r)
    \/ \E r \in VoteReqs : VoteAfterSettings(r)
    \/ \E r \in VoteReqs : VoteReadStudents(r, TRUE)
    \/ \E r \in VoteReqs : VoteAfterStudents(r)
    \/ \E r \in VoteReqs : VoteReadVotes(r, TRUE)
    \/ \E r \in VoteReqs : VoteAfterVotes(r)
    \/ \E r \in VoteReqs : VoteWriteVotes(r, TRUE)
    \/ \E r \in VoteReqs : VoteWriteStudents(r, TRUE)
    \/ \E r \in VoteReqs : VoteFinish(r)
    \/ \E c \in CheckReqs : CheckStep(c, {TRUE})
    \/ SettingsStep({TRUE}, {TRUE})

SpecRetry == Init /\ [][NextRetry]_vars

\* the clock of the same-token scenario: a timer callback or a sweep that is due runs
\* before the clock advances again (setTimeout and setInterval callbacks are not
\* postponed by a whole sweep interval)
TickOnTime ==
    /\ \A t \in Tokens : ~ENABLED SessionTimer(t)
    /\ ~ENABLED Sweeper
    /\ Tick

NextTimed ==
    \/ \E r \in VoteReqs : VoteSameToken(r)
    \/ \E r \in VoteReqs : VoteAfterSettings(r)
    \/ \E r \in VoteReqs : VoteReadStudents(r, TRUE)
    \/ \E r \in VoteReqs : VoteAfterStudents(r)
    \/ \E r \in VoteReqs : VoteReadVotes(r, TRUE)
    \/ \E r \in VoteReqs : VoteAfterVotes(r)
    \/ \E r \in VoteReqs : VoteWriteVotes(r, TRUE)
    \/ \E r \in VoteReqs : VoteWriteStudents(r, TRUE)
    \/ \E r \in VoteReqs : VoteFinish(r)
    \/ CheckStep(1, {TRUE})
    \/ SettingsStep({TRUE}, {TRUE})
    \/ TickOnTime
    \/ \E t \in Tokens : SessionTimer(t)
    \/ Sweeper

SpecTimed == Init /\ [][NextTimed]_vars

\* one verification, vote submissions with any token and any selection, and the admin
\* switching voting on and off
NextGate ==
    \/ \E r \in VoteReqs : VoteStep(r, {TRUE})
    \/ CheckStep(1, {TRUE})
    \/ SettingsStep(BOOLEAN, {TRUE})

SpecGate == Init /\ [][NextGate]_vars

\* no handler is between its first and its last step
Quiescent ==
    /\ \A r \in VoteReqs : vote[r].pc \in {"idle", "done"}
    /\ \A c \in CheckReqs : check[c].pc \in {"idle", "done"}
    /\ admin.pc = "idle"

\* requests served one after the other: a request arrives only when no other request
\* is being served, and no file operation fails
NextSequential ==
    \/ /\ Quiescent
       /\ \E r \in VoteReqs, tok \in IssuedTokens, sel \in SelectionInputs :
             VoteReadSettings(r, tok, sel, TRUE)
    \/ \E r \in VoteReqs : VoteAfterSettings(r)
    \/ \E r \in VoteReqs : VoteReadStudents(r, TRUE)
    \/ \E r \in VoteReqs : VoteAfterStudents(r)
    \/ \E r \in VoteReqs : VoteReadVotes(r, TRUE)
    \/ \E r \in VoteReqs : VoteAfterVotes(r)
    \/ \E r \in VoteReqs : VoteWriteVotes(r, TRUE)
    \/ \E r \in VoteReqs : VoteWriteStudents(r, TRUE)
    \/ \E r \in VoteReqs : VoteFinish(r)
    \/ /\ Quiescent
       /\ \E c \in CheckReqs, k \in VoterKeys : CheckReadStudents(c, k, TRUE)
    \/ \E c \in CheckReqs : CheckAfterStudents(c)
    \/ /\ Quiescent
       /\ PostSettingsWrite(TRUE, TRUE)
    \/ PostSettingsFinish

SpecSequential == Init /\ [][NextSequential]_vars

\* the limiter alone: requests of every client, the clock, the cleanup, admin resets
NextRate ==
    \/ \E ip \in Clients : RateLimit(ip)
    \/ Tick
    \/ Sweeper
    \/ ResetStep({TRUE})

SpecRate == Init /\ [][NextRate]_vars

\* the two pure functions on every pair of request bodies
NextKey == GenerateKeys

SpecKey == InitKey /\ [][NextKey]_vars

\* validateVoterInfo and generateVoterKey applied to two profiles whose class and
\* division may hold an underscore
SeparatorClassInputs == { << "x" >>, << "x", "_", "y" >>, << " ", "x" >> }
SeparatorDivisionInputs == { << "a" >>, << "y", "_", "a" >>, << "_" >> }
SeparatorProfileInputs ==
    [name : { << "a", "b" >>, << "A", "b" >>, << "a", "_" >> },
     class : SeparatorClassInputs, division : SeparatorDivisionInputs,
     dateOfBirth : {"2015-06-01"}]

InitSeparator ==
    /\ InitServer
    /\ keyRun \in [pc : {"input"}, p : SeparatorProfileInputs, q : SeparatorProfileInputs]

SpecSeparator == InitSeparator /\ [][NextKey]_vars

\* check-voter requests with any body, around one vote submission
NextProfile ==
    \/ VoteStep(1, {TRUE})
    \/ \E c \in CheckReqs, voterInfo \in BodyInputs : CheckVoter(c, voterInfo, TRUE)
    \/ \E c \in CheckReqs : CheckAfterStudents(c)
    \/ SettingsStep({TRUE}, {TRUE})

SpecProfile == Init /\ [][NextProfile]_vars

\* requests served one after the other, with admin resets whose writes may fail and
\* the rate limiter in front
NextSequentialReset ==
    \/ NextSequential
    \/ /\ Quiescent
       /\ \E ok \in BOOLEAN : ResetWriteVotes(ok)
    \/ \E ok \in BOOLEAN : ResetWriteStudents(ok)
    \/ ResetFinish
    \/ \E ip \in Clients : RateLimit(ip)

SpecSequentialReset == Init /\ [][NextSequentialReset]_vars

\* a vote submission that arrives when no other submission with its token is being
\* served: it arrives after every earlier submission with that token has been answered
VoteAfterOthers(r) ==
    \E tok \in IssuedTokens, sel \in SelectionInputs :
        /\ \A q \in VoteReqs : vote[q].pc \in {"idle", "done"} \/ vote[q].token # tok
        /\ VoteReadSettings(r, tok, sel, TRUE)

\* one verification, such submissions, and the admin switching voting on and off
NextReuse ==
    \/ \E r \in VoteReqs : VoteAfterOthers(r)
    \/ \E r \in VoteReqs : VoteAfterSettings(r)
    \/ \E r \in VoteReqs : VoteReadStudents(r, TRUE)
    \/ \E r \in VoteReqs : VoteAfterStudents(r)
    \/ \E r \in VoteReqs : VoteReadVotes(r, TRUE)
    \/ \E r \in VoteReqs : VoteAfterVotes(r)
    \/ \E r \in VoteReqs : VoteWriteVotes(r, TRUE)
    \/ \E r \in VoteReqs : VoteWriteStudents(r, TRUE)
    \/ \E r \in VoteReqs : VoteFinish(r)
    \/ CheckStep(1, {TRUE})
    \/ SettingsStep(BOOLEAN, {TRUE})

SpecReuse == Init /\ [][NextReuse]_vars

\* the steps of a submission between votingSessions.set and its answer: every file
\* operation it awaits completes, with success or with failure
CommitStep(r) ==
    \/ \E ok \in BOOLEAN : VoteReadVotes(r, ok)
    \/ VoteAfterVotes(r)
    \/ \E ok \in BOOLEAN : VoteWriteVotes(r, ok)
    \/ \E ok \in BOOLEAN : VoteWriteStudents(r, ok)
    \/ VoteFinish(r)

\* one verification and submissions carrying its token, whose commit may fail at
\* every file operation
NextRelease ==
    \/ \E r \in VoteReqs : VoteSameToken(r)
    \/ \E r \in VoteReqs : VoteAfterSettings(r)
    \/ \E r \in VoteReqs : VoteReadStudents(r, TRUE)
    \/ \E r \in VoteReqs : VoteAfterStudents(r)
    \/ \E r \in VoteReqs : CommitStep(r)
    \/ CheckStep(1, {TRUE})
    \/ SettingsStep({TRUE}, {TRUE})

\* the event loop runs every continuation whose file operation has completed
SpecRelease ==
    /\ Init
    /\ [][NextRelease]_vars
    /\ \A r \in VoteReqs : WF_vars(CommitStep(r))

\* the same-token scenario with the clock, where every awaited file operation of a
\* commit succeeds and its continuation is run
CommitOk(r) ==
    \/ VoteReadVotes(r, TRUE)
    \/ VoteAfterVotes(r)
    \/ VoteWriteVotes(r, TRUE)
    \/ VoteWriteStudents(r, TRUE)
    \/ VoteFinish(r)

\* the admin switches voting on once
EnableVotingOnce ==
    /\ ~settingsFile \/ admin.pc # "idle"
    /\ SettingsStep({TRUE}, {TRUE})

NextExpiry ==
    \/ \E r \in VoteReqs : VoteSameToken(r)
    \/ \E r \in VoteReqs : VoteAfterSettings(r)
    \/ \E r \in VoteReqs : VoteReadStudents(r, TRUE)
    \/ \E r \in VoteReqs : VoteAfterStudents(r)
    \/ \E r \in VoteReqs : CommitOk(r)
    \/ CheckStep(1, {TRUE})
    \/ EnableVotingOnce
    \/ TickOnTime
    \/ \E t \in Tokens : SessionTimer(t)
    \/ Sweeper

SpecExpiry ==
    /\ Init
    /\ [][NextExpiry]_vars
    /\ \A r \in VoteReqs : WF_vars(CommitOk(r))

\* the verifications after the first are for the same voter and arrive one at a time
\* once the TTL has elapsed
LateCheck(c) ==
    /\ c > 1
    /\ \/ /\ now > sessionTimeout
          /\ check[c - 1].pc = "done"
          /\ \A r \in VoteReqs :
                vote[r].pc \in {"idle", "done", "readVotes", "gotVotes", "writeVotes",
                                "writeStudents", "wroteStudents"}
          /\ CheckReadStudents(c, 1, TRUE)
       \/ CheckAfterStudents(c)

\* the timed same-token scenario with later verifications
NextStuck ==
    \/ \E r \in VoteReqs : VoteSameToken(r)
    \/ \E r \in VoteReqs : VoteAfterSettings(r)
    \/ \E r \in VoteReqs : VoteReadStudents(r, TRUE)
    \/ \E r \in VoteReqs : VoteAfterStudents(r)
    \/ \E r \in VoteReqs : CommitOk(r)
    \/ CheckStep(1, {TRUE})
    \/ \E c \in CheckReqs : LateCheck(c)
    \/ EnableVotingOnce
    \/ TickOnTime
    \/ \E t \in Tokens : SessionTimer(t)
    \/ Sweeper

SpecStuck == Init /\ [][NextStuck]_vars

\* vote submissions that carry the token of a live session, sent while voting is
\* enabled, each with a non-empty selection, at most two of them in flight at a time
VoteLiveToken(r) ==
    /\ settingsFile
    /\ \A q, p \in VoteReqs :
          (q # p) => (vote[q].pc \in {"idle", "done"} \/ vote[p].pc \in {"idle", "done"})
    /\ \E tok \in DOMAIN verifiedSessions, sel \in SelectionInputs \ {EmptySelection} :
          VoteReadSettings(r, tok, sel, TRUE)

\* voting is switched on, verifications are served one at a time before the first
\* submission, then submissions with any live token overlap
NextTokens ==
    \/ \E r \in VoteReqs : VoteLiveToken(r)
    \/ \E r \in VoteReqs : VoteAfterSettings(r)
    \/ \E r \in VoteReqs : VoteReadStudents(r, TRUE)
    \/ \E r \in VoteReqs : VoteAfterStudents(r)
    \/ \E r \in VoteReqs : CommitOk(r)
    \/ /\ Quiescent
       /\ settingsFile
       /\ vote[1].pc = "idle"
       /\ \E c \in CheckReqs, k \in VoterKeys : CheckReadStudents(c, k, TRUE)
    \/ \E c \in CheckReqs : CheckAfterStudents(c)
    \/ EnableVotingOnce

SpecTokens == Init /\ [][NextTokens]_vars

\* ---- the voting page of the client ----

\* handleVerification: the response of a check-voter request with success puts the
\* token in the page state and shows the voting step (a response is not handled again
\* after its token was cancelled)
HandleVerification(c) ==
    /\ page.step = "verification"
    /\ check[c].pc = "done" /\ check[c].result = "Verified"
    /\ check[c].token \notin cancelled
    /\ page' = [step |-> "voting", sessionToken |-> check[c].token]
    /\ UNCHANGED << settingsFile, votesFile, studentsFile, verifiedSessions, votingSessions,
                    nextToken, now, vote, check, admin, stats, credited, rateLimitMap,
                    rateLast, admitted, keyRun, cancelled, ghostVars >>

\* the Cancel & Start Over button: handleSessionExpiry resets the page state; no
\* request is sent to the server
CancelAndStartOver ==
    /\ page.step = "voting"
    /\ page' = IdlePage
    /\ cancelled' = cancelled \cup {page.sessionToken}
    /\ UNCHANGED << settingsFile, votesFile, studentsFile, verifiedSessions, votingSessions,
                    nextToken, now, vote, check, admin, stats, credited, rateLimitMap,
                    rateLast, admitted, keyRun, ghostVars >>

\* a vote submission that carries a token cancelled before, sent while voting is
\* enabled, with a non-empty selection
VoteCancelledToken(r) ==
    /\ settingsFile
    /\ \E tok \in cancelled, sel \in SelectionInputs \ {EmptySelection} :
          VoteReadSettings(r, tok, sel, TRUE)

\* verifications, cancellations on the page, and submissions with cancelled tokens
NextCancel ==
    \/ \E r \in VoteReqs : VoteCancelledToken(r)
    \/ \E r \in VoteReqs : VoteAfterSettings(r)
    \/ \E r \in VoteReqs : VoteReadStudents(r, TRUE)
    \/ \E r \in VoteReqs : VoteAfterStudents(r)
    \/ \E r \in VoteReqs : CommitOk(r)
    \/ \E c \in CheckReqs : CheckStep(c, {TRUE})
    \/ \E c \in CheckReqs : HandleVerification(c)
    \/ CancelAndStartOver
    \/ EnableVotingOnce

SpecCancel == Init /\ [][NextCancel]_vars

\* ---- request slots that are used again ----

\* the response of a vote submission has been sent: its slot takes the next request
VoteSlotFree(r) ==
    /\ vote[r].pc = "done"
    /\ vote' = [vote EXCEPT ![r] = IdleVote]
    /\ UNCHANGED << settingsFile, votesFile, studentsFile, verifiedSessions, votingSessions,
                    nextToken, now, check, admin, stats, credited, auxVars >>

\* the response of a verification has been sent: its slot takes the next request
CheckSlotFree(c) ==
    /\ check[c].pc = "done"
    /\ check' = [check EXCEPT ![c] = IdleCheck]
    /\ UNCHANGED << settingsFile, votesFile, studentsFile, verifiedSessions, votingSessions,
                    nextToken, now, vote, admin, stats, credited, auxVars >>

\* the tokens issued in a run with slots used again
MaxTokens == MaxCheckReqs + 1

\* the key a vote submission in flight is for: the key of its session
KeyOfReq(q) ==
    IF vote[q].voterKey # 0 THEN vote[q].voterKey
    ELSE IF vote[q].token \in DOMAIN verifiedSessions
    THEN verifiedSessions[vote[q].token].voterKey
    ELSE 0

\* a vote submission with a live token and a non-empty selection that arrives while
\* voting is enabled and no other submission for its key is in flight
VoteKeyAtRest(r) ==
    /\ settingsFile
    /\ \E tok \in DOMAIN verifiedSessions, sel \in SelectionInputs \ {EmptySelection} :
          /\ \A q \in VoteReqs :
                vote[q].pc \in {"idle", "done"}
                    \/ KeyOfReq(q) # verifiedSessions[tok].voterKey
          /\ VoteReadSettings(r, tok, sel, TRUE)

\* voting is switched on; verifications are served one at a time; the submissions for
\* one voter do not overlap, those of different voters may; no file operation fails
NextKeyAtRest ==
    \/ \E r \in VoteReqs : VoteKeyAtRest(r)
    \/ \E r \in VoteReqs : VoteAfterSettings(r)
    \/ \E r \in VoteReqs : VoteReadStudents(r, TRUE)
    \/ \E r \in VoteReqs : VoteAfterStudents(r)
    \/ \E r \in VoteReqs : CommitOk(r)
    \/ \E r \in VoteReqs : VoteSlotFree(r)
    \/ /\ Quiescent
       /\ settingsFile
       /\ nextToken <= MaxTokens
       /\ \E c \in CheckReqs, k \in VoterKeys : CheckReadStudents(c, k, TRUE)
    \/ \E c \in CheckReqs : CheckAfterStudents(c)
    \/ \E c \in CheckReqs : CheckSlotFree(c)
    \/ EnableVotingOnce

SpecKeyAtRest == Init /\ [][NextKeyAtRest]_vars

\* ---- helpers of the properties ----

Succeeded(r) == vote[r].pc = "done" /\ vote[r].result = "Success"

\* the submissions between votingSessions.set and votingSessions.delete for key k
InCommit(k) ==
    { r \in VoteReqs : /\ vote[r].voterKey = k
                       /\ vote[r].pc \in {"readVotes", "gotVotes", "writeVotes",
                                          "writeStudents", "wroteStudents"} }

SessionsOf(k) == { t \in DOMAIN verifiedSessions : verifiedSessions[t].voterKey = k }

RECURSIVE SumCounts(_, _)
SumCounts(f, S) ==
    IF S = {} THEN 0
    ELSE LET c == CHOOSE x \in S : TRUE IN f[c] + SumCounts(f, S \ {c})

\* the votes a tally holds for position p, and the roll entries that chose somebody for p
TallyTotal(votes, p) == SumCounts(votes[p], Candidates)
RollTotal(students, p) ==
    Cardinality({ i \in 1..Len(students) : students[i].votes[p] # NoVote })

\* ---- C1 ----
\* C1: for every voter key, at most one vote submission is credited (answers success
\* and increments the tally) between two admin resets.
AtMostOneCreditPerKey == \A k \in VoterKeys : credited[k] <= 1

\* ---- C2 ----
\* C2: when N vote submissions carrying the same valid token and a non-empty selection
\* have all ended, exactly one has answered success, the others SubmissionInProgress,
\* SessionExpired or AlreadyVoted, and the tally holds exactly the successful
\* submission's selections, each counted once.
SameTokenExactlyOneSuccess ==
    (\A r \in VoteReqs : vote[r].pc = "done") =>
        /\ Cardinality({ r \in VoteReqs : Succeeded(r) }) = 1
        /\ \A r \in VoteReqs :
              vote[r].result \in {"Success", "SubmissionInProgress", "SessionExpired",
                                  "AlreadyVoted"}
        /\ \A r \in VoteReqs : Succeeded(r) => votesFile = AddVotes(emptyVotes, vote[r].sel)

\* ---- C3 ----
\* C3: for a single voter key, at most one vote submission is between lock acquisition
\* and lock release at any instant.
AtMostOneInCommitPerKey == \A k \in VoterKeys : Cardinality(InCommit(k)) <= 1

\* ---- C4 ----
\* C4: once a vote submission for k has answered success, the voter roll holds an entry
\* for k in every later state until an admin reset (so that every later check-voter
\* for k reads it and answers AlreadyVoted).
CreditedVoterStaysOnRoll ==
    \A k \in VoterKeys : credited[k] >= 1 => hasVoted(studentsFile, k)

\* ---- C5 ----
\* C5: when two vote submissions for two different keys have both answered success, the
\* roll holds an entry for each key and the tally holds the increments of both.
BothCommitsKept ==
    \A r1, r2 \in VoteReqs :
        (Succeeded(r1) /\ Succeeded(r2) /\ vote[r1].voterKey # vote[r2].voterKey) =>
            /\ hasVoted(studentsFile, vote[r1].voterKey)
            /\ hasVoted(studentsFile, vote[r2].voterKey)
            /\ \A p \in Positions, c \in Candidates :
                  votesFile[p][c] >= Cardinality({ r \in {r1, r2} : vote[r].sel[p] = c })

\* ---- C6 ----
\* C6: no answer of GET /api/admin/stats shows a tally increment whose voter-roll
\* entry is absent: for every position the tally holds no more votes than the roll
\* has entries that chose a candidate for it.
StatsSeesBothOrNeither ==
    stats.pc = "responded" =>
        \A p \in Positions : TallyTotal(stats.votes, p) <= RollTotal(stats.students, p)

\* ---- C7 ----
\* C7: after a vote submission (the only one so far) has ended with a failed commit
\* write, the voter is either not marked voted with no tally increment, or marked
\* voted with the increment counted once.
FailedCommitLeavesNoLimbo ==
    \A r \in VoteReqs :
        ( /\ vote[r].pc = "done" /\ vote[r].result = "CommitFailed"
          /\ ~NoSelection(vote[r].sel)
          /\ \A q \in VoteReqs \ {r} : vote[q].pc = "idle" ) =>
            \/ /\ ~hasVoted(studentsFile, vote[r].voterKey)
               /\ votesFile = emptyVotes
            \/ /\ hasVoted(studentsFile, vote[r].voterKey)
               /\ votesFile = AddVotes(emptyVotes, vote[r].sel)

\* ---- C8 ----
\* C8: at every instant at most one live VerifiedSession exists per voter key.
AtMostOneSessionPerKey == \A k \in VoterKeys : Cardinality(SessionsOf(k)) <= 1

\* ---- C9 ----
\* C9: a check-voter request that read a roll without an entry for its key, and runs
\* its checks while a VotingLock exists for the key, answers SessionInProgress and
\* creates no VerifiedSession.
CheckRejectsLockedKey ==
    [][ \A c \in CheckReqs :
          ( /\ check[c].pc = "gotStudents" /\ check'[c].pc = "done"
            /\ ~check[c].readNull
            /\ ~hasVoted(check[c].students, check[c].voterKey)
            /\ check[c].voterKey \in DOMAIN votingSessions ) =>
              /\ check'[c].result = "SessionInProgress"
              /\ check'[c].token = NoToken
              /\ verifiedSessions' = verifiedSessions
              /\ nextToken' = nextToken ]_vars

\* a check-voter request has been answered SessionInProgress while the lock was held
CheckRejectedWhileLocked ==
    \E c \in CheckReqs :
        /\ check[c].pc = "done" /\ check[c].result = "SessionInProgress"
        /\ InCommit(check[c].voterKey) # {}

\* ---- C10 ----
\* C10: when one vote submission and admin resets have all completed, the ledger is
\* either empty (reset only) or holds exactly that one vote in both tally and roll.
ResetAndCommitDoNotMix ==
    ( /\ vote[1].pc = "done"
      /\ \A r \in VoteReqs \ {1} : vote[r].pc = "idle"
      /\ admin.pc = "idle" ) =>
        \/ /\ votesFile = emptyVotes
           /\ studentsFile = emptyStudents
        \/ /\ vote[1].result = "Success"
           /\ votesFile = AddVotes(emptyVotes, vote[1].sel)
           /\ studentsFile = PushStudent(emptyStudents, vote[1].voterKey, vote[1].sel,
                                         vote[1].token)

\* ---- C11 ----
\* the age of the VerifiedSession of token t
SessionAge(t) == now - verifiedSessions[t].timestamp

\* the token check of a vote submission accepts the token in this step
TokenAccepted(r) == vote[r].pc = "gotSettings" /\ vote'[r].pc = "readStudents"

GateStep(r) == vote[r].pc = "gotSettings" /\ vote'[r].pc # "gotSettings"

\* the token of request r is unknown or expired
DeadToken(r) == vote[r].token = NoToken \/ vote[r].token \notin DOMAIN verifiedSessions

\* C12 as stated: a vote submission whose token is unknown or expired is answered
\* SessionExpired whatever the votingEnabled flag it read.
DeadTokenAlwaysSessionExpired ==
    [][ \A r \in VoteReqs :
          (GateStep(r) /\ ~vote[r].readNull /\ DeadToken(r)) =>
              vote'[r].result = "SessionExpired" ]_vars

\* C12: a vote submission whose token is unknown or expired is answered SessionExpired
\* when it read votingEnabled = true and VotingDisabled when it read votingEnabled =
\* false: the voting-disabled check precedes the token check.
DeadTokenAfterSettingsGate ==
    [][ \A r \in VoteReqs :
          (GateStep(r) /\ ~vote[r].readNull /\ DeadToken(r)) =>
              /\ vote'[r].pc = "done"
              /\ vote'[r].result =
                    IF vote[r].settings THEN "SessionExpired" ELSE "VotingDisabled" ]_vars

\* a request without a token was answered VotingDisabled, another one SessionExpired
DeadTokenBothAnswers ==
    \E r1, r2 \in VoteReqs :
        /\ vote[r1].pc = "done" /\ vote[r1].result = "VotingDisabled"
        /\ vote[r1].token = NoToken
        /\ vote[r2].pc = "done" /\ vote[r2].result = "SessionExpired"

\* ---- C13 ----
\* the continuation after the students read runs for request r in this step
ChecksStep(r) == vote[r].pc = "gotStudents" /\ vote'[r].pc # "gotStudents"

\* request r holds a valid token, read a roll without its key, and selected nobody
EmptyBallot(r) ==
    /\ ~vote[r].readNull
    /\ ~hasVoted(vote[r].students, vote[r].voterKey)
    /\ NoSelection(vote[r].sel)

\* C13 as stated: a vote submission with a valid token and no selection at all is
\* answered NoSelection, also while another submission holds the VotingLock of its key.
EmptyBallotAlwaysNoSelection ==
    [][ \A r \in VoteReqs :
          (ChecksStep(r) /\ EmptyBallot(r)) => vote'[r].result = "NoSelection" ]_vars

\* C13: a vote submission with a valid token and no selection at all is answered
\* NoSelection when no VotingLock exists for its key and SubmissionInProgress when one
\* does (the lock test precedes the selection check); either way it changes no
\* session, lock, tally or roll.
EmptyBallotAfterLockTest ==
    [][ \A r \in VoteReqs :
          (ChecksStep(r) /\ EmptyBallot(r)) =>
              /\ vote'[r].pc = "done"
              /\ vote'[r].result =
                    IF vote[r].voterKey \in DOMAIN votingSessions
                    THEN "SubmissionInProgress" ELSE "NoSelection"
              /\ UNCHANGED << verifiedSessions, votingSessions, votesFile,
                              studentsFile >> ]_vars

\* an empty ballot has passed the token check and read the roll, and runs its checks
\* next, while another submission of the same key is in its commit
EmptyBallotMeetsLock ==
    \E r \in VoteReqs :
        /\ vote[r].pc = "gotStudents" /\ EmptyBallot(r)
        /\ vote[r].voterKey \in DOMAIN votingSessions
        /\ InCommit(vote[r].voterKey) # {}

\* ---- C14 ----
\* the roll entry a successful submission appends
RollEntry(r) ==
    [voterKey |-> vote[r].voterKey, votes |-> vote[r].sel, sessionToken |-> vote[r].token]

\* C14: with requests served one after the other and no write failure, the tally holds
\* for every position and candidate exactly one vote per successful submission that
\* selected the candidate, the roll holds exactly one entry per successful submission,
\* recording its selections (null where it selected nobody), and a submission without
\* any selection is answered NoSelection and changes neither tally nor roll.
SequentialCommitExact ==
    /\ [](Quiescent =>
            /\ \A p \in Positions, c \in Candidates :
                  votesFile[p][c] =
                      Cardinality({ r \in VoteReqs : Succeeded(r) /\ vote[r].sel[p] = c })
            /\ Len(studentsFile) = Cardinality({ r \in VoteReqs : Succeeded(r) })
            /\ \A r \in VoteReqs :
                  Succeeded(r) =>
                      \E i \in 1..Len(studentsFile) : studentsFile[i] = RollEntry(r))
    /\ [][ \A r \in VoteReqs :
             (ChecksStep(r) /\ EmptyBallot(r)) =>
                 /\ vote'[r].result = "NoSelection"
                 /\ UNCHANGED << votesFile, studentsFile >> ]_vars

\* a submission that chose candidates for two positions and nobody for the others has
\* succeeded, and a submission without any selection has been answered NoSelection
PartialBallotCommitted ==
    /\ Quiescent
    /\ \E r, q \in VoteReqs :
          /\ Succeeded(r) /\ vote[r].sel = Sel("Bob", "Alice", NoVote, NoVote)
          /\ vote[q].pc = "done" /\ vote[q].result = "NoSelection"

\* ---- C15 ----
\* the window of client ip is new or expired
NewWindow(ip) == ip \notin DOMAIN rateLimitMap \/ now > rateLimitMap[ip].resetTime

Fold(s) == trim(toLowerCase(s))

\* q is p with letter case changed or surrounding whitespace added in name, class or
\* division
SameUpToCaseAndSpace(p, q) ==
    /\ Fold(p.name) = Fold(q.name)
    /\ Fold(p.class) = Fold(q.class)
    /\ Fold(p.division) = Fold(q.division)
    /\ p.dateOfBirth = q.dateOfBirth

\* C16: for every valid profile P, generateVoterKey gives the same key for P and for
\* every profile that differs from P only in letter case or surrounding whitespace of
\* name, class or division.
KeyIgnoresCaseAndSpace ==
    ( /\ keyRun.pc = "done"
      /\ keyRun.validP
      /\ SameUpToCaseAndSpace(keyRun.p, keyRun.q) ) =>
        keyRun.keyP = keyRun.keyQ

\* ---- C17 ----
\* a required field of the body is missing or empty
MissingField(voterInfo) ==
    \/ voterInfo.name = << >> \/ voterInfo.class = << >>
    \/ voterInfo.division = << >> \/ voterInfo.dateOfBirth = NoDate

\* C17: a check-voter request whose body lacks a required field, or has it empty, is
\* answered InvalidProfile; it creates no VerifiedSession, takes no VotingLock and
\* changes neither tally nor roll.
MissingFieldRejected ==
    [][ \A c \in CheckReqs, voterInfo \in BodyInputs :
          (CheckVoter(c, voterInfo, TRUE) /\ MissingField(voterInfo)) =>
              /\ check'[c].pc = "done"
              /\ check'[c].result = "InvalidProfile"
              /\ check'[c].token = NoToken
              /\ UNCHANGED << verifiedSessions, nextToken, votingSessions, votesFile,
                              studentsFile >> ]_vars

\* a check-voter request has been answered InvalidProfile while a submission was in
\* its commit, and a VerifiedSession exists
InvalidProfileAnswered ==
    \E c \in CheckReqs :
        /\ check[c].pc = "done" /\ check[c].result = "InvalidProfile"
        /\ votingSessions # MapClear
        /\ verifiedSessions # MapClear

\* ---- C18 ----
\* the reset handler clears the maps and answers in this step
ResetAnswers == admin.pc = "resetWroteStudents" /\ admin'.pc = "idle"

\* C18: whichever of its two writes fail, an admin reset never leaves one of tally and
\* roll cleared and the other not; and when it answers success with no other request
\* in flight, the tally and the roll are empty and no VerifiedSession, VotingLock or
\* rate window remains.
ResetClearsTogether ==
    [][ ResetAnswers =>
          /\ (votesFile' = emptyVotes) <=> (studentsFile' = emptyStudents)
          /\ (admin.votesSuccess /\ admin.studentsSuccess) =>
                /\ votesFile' = emptyVotes
                /\ studentsFile' = emptyStudents
                /\ verifiedSessions' = MapClear
                /\ votingSessions' = MapClear
                /\ rateLimitMap' = MapClear ]_vars

\* ---- C19 ----
\* C19: a vote submission that read votingEnabled = false is answered VotingDisabled
\* and leaves the tally, the roll, the VerifiedSession map and the VotingLock set
\* unchanged.
VotingDisabledChangesNothing ==
    [][ \A r \in VoteReqs :
          (GateStep(r) /\ ~vote[r].readNull /\ ~vote[r].settings) =>
              /\ vote'[r].pc = "done"
              /\ vote'[r].result = "VotingDisabled"
              /\ UNCHANGED << votesFile, studentsFile, verifiedSessions,
                              votingSessions >> ]_vars

\* a submission carrying a live token has been answered VotingDisabled while voting
\* is disabled, and the session is still there
LiveTokenVotingDisabled ==
    \E r \in VoteReqs :
        /\ vote[r].pc = "done" /\ vote[r].result = "VotingDisabled"
        /\ vote[r].token \in DOMAIN verifiedSessions
        /\ ~settingsFile

\* ---- C20 ----
\* a submission with the token of request r has answered success
TokenUsed(r) == \E q \in VoteReqs : Succeeded(q) /\ vote[q].token = vote[r].token

\* C20 as stated: after a submission with token T has answered success, no
\* VerifiedSession exists for T and every later submission with T is answered
\* SessionExpired.
UsedTokenAlwaysSessionExpired ==
    /\ [](\A q \in VoteReqs : Succeeded(q) => vote[q].token \notin DOMAIN verifiedSessions)
    /\ [][ \A r \in VoteReqs :
             (GateStep(r) /\ TokenUsed(r)) => vote'[r].result = "SessionExpired" ]_vars

\* C20: after a submission with token T has answered success, no VerifiedSession exists
\* for T and every later submission with T is rejected: with SessionExpired when it
\* read votingEnabled = true, with VotingDisabled when it read votingEnabled = false.
UsedTokenNeverAccepted ==
    /\ [](\A q \in VoteReqs : Succeeded(q) => vote[q].token \notin DOMAIN verifiedSessions)
    /\ [][ \A r \in VoteReqs :
             (GateStep(r) /\ TokenUsed(r)) =>
                 /\ vote'[r].pc = "done"
                 /\ vote'[r].result =
                       IF vote[r].settings THEN "SessionExpired" ELSE "VotingDisabled" ]_vars

\* a submission has succeeded with a token, and a later submission with the same
\* token has been answered SessionExpired
UsedTokenRejected ==
    \E q, r \in VoteReqs :
        /\ q < r
        /\ Succeeded(q)
        /\ vote[r].pc = "done" /\ vote[r].result = "SessionExpired"
        /\ vote[r].token = vote[q].token

\* ---- C21 ----
\* C21: for every position and candidate, the count stored in votes.json never
\* decreases from one state to the next while no admin reset runs, under every
\* interleaving of vote submissions.
TallyNeverDecreases ==
    [][ \A p \in Positions, c \in Candidates : votesFile'[p][c] >= votesFile[p][c] ]_vars

\* ---- C22 ----
\* request r is between votingSessions.set and its answer
Committing(r) ==
    vote[r].pc \in {"readVotes", "gotVotes", "writeVotes", "writeStudents", "wroteStudents"}

\* C22: a vote submission that acquired the VotingLock of its key has released it when
\* the request ends, on the success path and on every failure path; no lock exists
\* for a key without a submission in its commit; and every lock is eventually
\* released.
LockAlwaysReleased ==
    /\ [][ \A r \in VoteReqs :
             (Committing(r) /\ vote'[r].pc = "done") =>
                 vote[r].voterKey \notin DOMAIN votingSessions' ]_vars
    /\ [](\A k \in DOMAIN votingSessions : InCommit(k) # {})
    /\ \A k \in VoterKeys :
          (k \in DOMAIN votingSessions) ~> (k \notin DOMAIN votingSessions)

\* a submission has ended after a failed write of its commit, another one has
\* succeeded, and no lock is left
AllCommitPathsEnded ==
    /\ votingSessions = MapClear
    /\ \E r, q \in VoteReqs :
          /\ vote[r].pc = "done" /\ vote[r].result = "CommitFailed"
          /\ ~NoSelection(vote[r].sel)
          /\ Succeeded(q)


\* ---- C23 ----
\* the VerifiedSession of the token of request r is no longer in the map
SessionGone(r) == vote[r].token \notin DOMAIN verifiedSessions

\* C23: the removal of a VerifiedSession while a submission with its token is in its
\* commit leaves that submission as it is; a submission in its commit whose session is
\* gone ends with Success and its key on the roll, and no such submission stays in
\* its commit for ever.
ExpiryDoesNotCancelCommit ==
    /\ [][ \A r \in VoteReqs :
             (Committing(r) /\ ~SessionGone(r) /\ vote'[r].pc # "done"
                /\ vote[r].token \notin DOMAIN verifiedSessions') =>
                 /\ vote'[r] = vote[r]
                 /\ votesFile' = votesFile /\ studentsFile' = studentsFile ]_vars
    /\ [][ \A r \in VoteReqs :
             (Committing(r) /\ SessionGone(r) /\ vote'[r].pc = "done") =>
                 /\ vote'[r].result = "Success"
                 /\ hasVoted(studentsFile', vote[r].voterKey)
                 /\ credited'[vote[r].voterKey] = credited[vote[r].voterKey] + 1 ]_vars
    /\ <>[](\A r \in VoteReqs : ~(Committing(r) /\ SessionGone(r)))

\* a submission is at the last step of its commit, the tally and the roll written,
\* and its session has been removed
CommitOutlivesSession ==
    \E r \in VoteReqs :
        /\ vote[r].pc = "wroteStudents"
        /\ SessionGone(r)
        /\ vote[r].votesSuccess /\ vote[r].studentsSuccess
        /\ hasVoted(studentsFile, vote[r].voterKey)


\* ---- C24 ----
\* the age of the VotingLock of key k
LockAge(k) == now - votingSessions[k].timestamp

\* the lock test of check-voter rejects request c in this step
CheckMeetsLock(c) ==
    /\ check[c].pc = "gotStudents" /\ check'[c].pc = "done"
    /\ check'[c].result = "SessionInProgress"

\* the lock test of a vote submission rejects request r in this step
VoteMeetsLock(r) == ChecksStep(r) /\ vote'[r].result = "SubmissionInProgress"

\* C24: a cleanup pass leaves no VotingLock older than the TTL, such a pass is due
\* whenever a lock is older than the TTL whether or not its submission has ended, the
\* clock does not advance past a due pass, and check-voter and vote submission reject
\* because of a lock only while the lock is in the map.
StaleLockSwept ==
    /\ [][ Sweeper => \A k \in DOMAIN votingSessions' :
                          now - votingSessions'[k].timestamp <= sessionTimeout ]_vars
    /\ [](\A k \in DOMAIN votingSessions :
             LockAge(k) > sessionTimeout => ENABLED Sweeper)
    /\ [][ now' # now => \A k \in DOMAIN votingSessions :
                              LockAge(k) <= sessionTimeout ]_vars
    /\ [][ \A c \in CheckReqs :
             CheckMeetsLock(c) => check[c].voterKey \in DOMAIN votingSessions ]_vars
    /\ [][ \A r \in VoteReqs :
             VoteMeetsLock(r) => vote[r].voterKey \in DOMAIN votingSessions ]_vars

\* a verification arriving after the sweep of a stale lock was answered with a new
\* session while the submission that had taken the lock is still in its commit
VerifiedAfterSweep ==
    \E c \in CheckReqs, k \in VoterKeys :
        /\ check[c].pc = "done" /\ check[c].result = "Verified" /\ check[c].voterKey = k
        /\ check[c].token \in DOMAIN verifiedSessions
        /\ verifiedSessions[check[c].token].timestamp > sessionTimeout
        /\ k \notin DOMAIN votingSessions
        /\ InCommit(k) # {}


\* ---- C25 ----
\* the roll read by request r holds an entry for its key
ReadRollEntry(r) == ~vote[r].readNull /\ hasVoted(vote[r].students, vote[r].voterKey)

\* C25: a vote submission that passed the token check and read a roll holding an entry
\* for its key is answered AlreadyVoted; that step removes the VerifiedSession of its
\* token and nothing else, and changes neither the tally, nor the roll, nor a lock.
AlreadyVotedDropsSessionOnly ==
    [][ \A r \in VoteReqs :
          (ChecksStep(r) /\ ReadRollEntry(r)) =>
              /\ vote'[r].pc = "done" /\ vote'[r].result = "AlreadyVoted"
              /\ verifiedSessions' = MapDelete(verifiedSessions, vote[r].token)
              /\ votesFile' = votesFile
              /\ studentsFile' = studentsFile
              /\ votingSessions' = votingSessions
              /\ credited' = credited ]_vars

\* a voter verified twice voted with one token, and the submission with the other
\* token was answered AlreadyVoted and its session is gone
SecondTokenAlreadyVoted ==
    \E r, q \in VoteReqs :
        /\ vote[r].pc = "done" /\ vote[r].result = "AlreadyVoted"
        /\ Succeeded(q)
        /\ vote[q].voterKey = vote[r].voterKey
        /\ vote[q].token # vote[r].token
        /\ vote[r].token \notin DOMAIN verifiedSessions
        /\ hasVoted(studentsFile, vote[r].voterKey)


\* ---- C26 ----
\* C26: the step that answers a vote submission with SubmissionInProgress changes
\* neither the VerifiedSessions, nor the VotingLocks, nor the tally, nor the roll.
SubmissionInProgressChangesNothing ==
    [][ \A r \in VoteReqs :
          VoteMeetsLock(r) =>
              /\ verifiedSessions' = verifiedSessions
              /\ votingSessions' = votingSessions
              /\ votesFile' = votesFile
              /\ studentsFile' = studentsFile
              /\ credited' = credited ]_vars

\* a submission was answered SubmissionInProgress; its session is still in the map and
\* the other submission still holds the lock and is in its commit
RejectedBesideCommit ==
    \E r \in VoteReqs :
        /\ vote[r].pc = "done" /\ vote[r].result = "SubmissionInProgress"
        /\ vote[r].token \in DOMAIN verifiedSessions
        /\ vote[r].voterKey \in DOMAIN votingSessions
        /\ \E q \in InCommit(vote[r].voterKey) : q # r


\* ---- C27 ----
\* the fields of profile p as generateVoterKey normalizes them
Normalized(p) ==
    [name |-> trim(toLowerCase(p.name)), class |-> trim(p.class),
     division |-> trim(p.division), dateOfBirth |-> p.dateOfBirth]

\* C27: two valid profiles whose normalized fields differ never get the same key.
DistinctProfilesDistinctKeys ==
    ( /\ keyRun.pc = "done"
      /\ keyRun.validP /\ keyRun.validQ
      /\ Normalized(keyRun.p) # Normalized(keyRun.q) ) =>
        keyRun.keyP # keyRun.keyQ


\* ---- C28 ----
\* C28: a vote submission that arrives with a cancelled token is answered
\* SessionExpired by the token check.
CancelledTokenRejected ==
    [][ \A r \in VoteReqs :
          (GateStep(r) /\ vote[r].token \in cancelled) =>
              vote'[r].result = "SessionExpired" ]_vars


\* ---- C29 ----
\* the students write of request r puts its roll entry in students.json in this step
RollWritten(r) ==
    /\ vote[r].pc = "writeStudents" /\ vote'[r].pc = "wroteStudents"
    /\ studentsFile' # studentsFile

\* C29: the students write of a commit is issued after its votes write has completed,
\* and when it puts the roll entry in students.json the tally with that commit's
\* increments has been written to votes.json.
RollWrittenAfterTally ==
    [][ \A r \in VoteReqs : RollWritten(r) => vote[r].votesSuccess ]_vars


\* ---- C30 ----
\* the count of the rate window of client ip in map m; no window counts as 0
WindowCount(m, ip) == IF ip \in DOMAIN m THEN m[ip].count ELSE 0

\* client ip has a rate window whose reset time has not passed
OpenWindow(ip) == ip \in DOMAIN rateLimitMap /\ now <= rateLimitMap[ip].resetTime

\* the change this step makes to the count of the open window of client ip
CountStep(ip) ==
    IF RateLimit(ip) /\ rateLast'.outcome = "next"
    THEN WindowCount(rateLimitMap', ip) = WindowCount(rateLimitMap, ip) + 1
    ELSE WindowCount(rateLimitMap', ip) = WindowCount(rateLimitMap, ip)

\* C30 as stated: while the reset time of a client's window has not passed, every step
\* leaves its count unchanged or, when it admits a request of the client, adds one.
CountOnlyGrowsInWindow ==
    [][ \A ip \in Clients : OpenWindow(ip) => CountStep(ip) ]_vars

\* C30, amended: the same for every step but the one in which an admin reset clears
\* the rate-limit table, which removes every window.
CountOnlyGrowsUntilReset ==
    [][ \A ip \in Clients :
          OpenWindow(ip) =>
              IF ResetAnswers THEN rateLimitMap' = MapClear ELSE CountStep(ip) ]_vars

\* a client was rejected at maxRequests and an admin reset then removed its window
\* before the reset time
OpenWindowCleared ==
    /\ rateLast.outcome = "RateLimited"
    /\ rateLimitMap = MapClear
    /\ now = 0


\* ---- C31 ----
\* the number of entries of the roll for key k
EntriesOf(students, k) ==
    Cardinality({ i \in 1..Len(students) : students[i].voterKey = k })

\* C31: the roll never holds two entries with the same key, and every roll a commit
\* writes is the roll it read, which holds no entry for its key, plus one entry for it.
RollHasNoDuplicateKey ==
    /\ [](\A k \in VoterKeys : EntriesOf(studentsFile, k) <= 1)
    /\ [][ \A r \in VoteReqs :
             RollWritten(r) =>
                 LET n == Len(studentsFile') IN
                   /\ n >= 1
                   /\ studentsFile'[n] = RollEntry(r)
                   /\ ~hasVoted(SubSeq(studentsFile', 1, n - 1), vote[r].voterKey) ]_vars

\* two submissions with different tokens of one voter have both succeeded, and the
\* roll holds one entry for that voter
TwoSuccessesOneEntry ==
    \E k \in VoterKeys :
        /\ credited[k] = 2
        /\ EntriesOf(studentsFile, k) = 1
        /\ \E r, q \in VoteReqs :
              /\ Succeeded(r) /\ Succeeded(q)
              /\ vote[r].voterKey = k /\ vote[q].voterKey = k
              /\ vote[r].token # vote[q].token


\* ---- C32 ----
\* no vote submission and no admin request is in flight
NoCommitOrResetInFlight ==
    /\ \A r \in VoteReqs : vote[r].pc \in {"idle", "done"}
    /\ admin.pc = "idle"

\* C32: when no vote submission and no reset is in flight, the counts of every position
\* add up to the number of roll entries with a selection for that position.
TallyMatchesRollAtRest ==
    NoCommitOrResetInFlight =>
        \A p \in Positions : TallyTotal(votesFile, p) = RollTotal(studentsFile, p)


\* ---- C33 ----
\* C33: when the submissions for one voter do not overlap and no file operation fails,
\* at most one submission per voter is answered Success, and a submission with a live
\* token that is decided after a success for its voter is answered AlreadyVoted and
\* its session is removed.
OneSuccessPerKeyAtRest ==
    /\ [](\A k \in VoterKeys : credited[k] <= 1)
    /\ [][ \A r \in VoteReqs :
             (ChecksStep(r) /\ credited[vote[r].voterKey] >= 1) =>
                 /\ vote'[r].result = "AlreadyVoted"
                 /\ vote[r].token \notin DOMAIN verifiedSessions' ]_vars


\* ---- C34 ----
\* every vote submission so far has been answered, and none with Success
OnlyFailedSubmissions ==
    /\ \A r \in VoteReqs : vote[r].pc \in {"idle", "done"}
    /\ \A r \in VoteReqs : ~Succeeded(r)
    /\ \E r \in VoteReqs : vote[r].pc = "done" /\ vote[r].result = "CommitFailed"

\* C34: a vote submission answered with the commit failure leaves the stored tally and
\* the stored roll as they were when it started: while no submission has succeeded,
\* both files are as after construction.
CommitFailedLeavesLedger ==
    OnlyFailedSubmissions => (votesFile = emptyVotes /\ studentsFile = emptyStudents)


\* ---- C35 ----
\* the verification c stores a new VerifiedSession in this step
SessionStored(c) ==
    /\ check[c].pc = "gotStudents" /\ check'[c].pc = "done"
    /\ check'[c].result = "Verified"

\* C35: no VerifiedSession is stored for a key that has an entry in the roll at that
\* moment.
NoSessionForVotedKey ==
    [][ \A c \in CheckReqs :
          SessionStored(c) => ~hasVoted(studentsFile, check[c].voterKey) ]_vars

\* ---- tokens issued before voting was switched off ----

\* a vote submission that carries a token whose session a disabling POST /api/settings
\* cleared, sent once voting is enabled again, with a non-empty selection
VoteRevokedToken(r) ==
    /\ settingsFile
    /\ vote[r].pc = "idle"
    /\ r > 1 => vote[r - 1].pc # "idle"
    /\ \E tok \in revoked, sel \in SelectionInputs \ {EmptySelection} :
          vote' = [vote EXCEPT ![r] = [IdleVote EXCEPT !.pc = "gotSettings", !.token = tok,
                                                       !.sel = sel, !.settings = TRUE]]
    /\ late' = late \cup {r}
    /\ UNCHANGED << settingsFile, votesFile, studentsFile, verifiedSessions, votingSessions,
                    nextToken, now, check, admin, stats, credited, rateLimitMap, rateLast,
                    admitted, keyRun, page, cancelled, revoked, swept, readmitted >>

\* verifications that arrive while no other request is served, submissions with live
\* tokens one at a time, the admin switching voting on and off at any moment (a settings write may
\* fail), and submissions with the tokens of cleared sessions
NextRevoke ==
    \/ /\ \A q \in VoteReqs : vote[q].pc \in {"idle", "done"}
       /\ \E r \in VoteReqs : VoteLiveToken(r)
    \/ \E r \in VoteReqs : VoteRevokedToken(r)
    \/ \E r \in VoteReqs : VoteAfterSettings(r)
    \/ \E r \in VoteReqs : VoteReadStudents(r, TRUE)
    \/ \E r \in VoteReqs : VoteAfterStudents(r)
    \/ \E r \in VoteReqs : CommitOk(r)
    \/ /\ \A r \in VoteReqs : vote[r].pc \in {"idle", "done"}
       /\ \A c \in CheckReqs : check[c].pc \in {"idle", "done"}
       /\ \E c \in CheckReqs, k \in VoterKeys : CheckReadStudents(c, k, TRUE)
    \/ \E c \in CheckReqs : CheckAfterStudents(c)
    \/ SettingsStep(BOOLEAN, BOOLEAN)

SpecRevoke == Init /\ [][NextRevoke]_vars

\* the step in which a POST /api/settings answers
SettingsAnswered == admin.pc = "settingsWritten" /\ admin'.pc = "idle"

\* C36: a successful POST /api/settings with votingEnabled=false leaves no
\* VerifiedSession and no VotingLock; a POST with votingEnabled=true (and a POST whose
\* write failed) leaves both maps as they were; and a vote submission that read
\* votingEnabled=true and carries a token whose session such a POST cleared is answered
\* SessionExpired
DisableRevokesTokens ==
    /\ [][ (SettingsAnswered /\ admin.success /\ ~admin.votingEnabled) =>
              (verifiedSessions' = MapClear /\ votingSessions' = MapClear) ]_vars
    /\ [][ ((admin.pc = "settingsWritten" \/ admin'.pc = "settingsWritten")
              /\ (IF admin.pc = "settingsWritten" THEN admin.votingEnabled \/ ~admin.success
                  ELSE admin'.votingEnabled \/ ~admin'.success)
              /\ admin' # admin) =>
              UNCHANGED << verifiedSessions, votingSessions >> ]_vars
    /\ [][ \A r \in VoteReqs :
              (GateStep(r) /\ vote[r].settings /\ ~vote[r].readNull
                 /\ vote[r].token \in revoked) =>
              vote'[r].result = "SessionExpired" ]_vars

\* a submission that arrived after voting was enabled again, with a token issued before
\* voting was switched off, was answered SessionExpired, while another token issued
\* since then has its session
RevokedTokenExpired ==
    \E r \in late :
       /\ vote[r].pc = "done" /\ vote[r].result = "SessionExpired"
       /\ vote[r].token \in revoked
       /\ settingsFile
       /\ \E t \in DOMAIN verifiedSessions : t \notin revoked

\* ---- C37 ----
\* voting is switched off and no POST /api/settings is being served: the last write of
\* settings.json stored votingEnabled=false and its handler has answered
VotingOff == ~settingsFile /\ admin.pc = "idle"

\* C37: while voting is switched off and stays so, no step changes the tally or the
\* roll (no reset runs in this scenario), also for the submissions that were in flight
\* when voting was switched off.
LedgerFrozenWhileDisabled ==
    [][ (VotingOff /\ ~settingsFile') => UNCHANGED << votesFile, studentsFile >> ]_vars

\* ---- the cleanup pass among live entries ----

\* the first request of a client in a window reaches the middleware while expired
\* entries wait for the cleanup pass
FirstInWindow(ip) ==
    /\ ENABLED Sweeper
    /\ IF ip \in DOMAIN rateLimitMap THEN now > rateLimitMap[ip].resetTime ELSE TRUE
    /\ RateLimit(ip)

\* verifications of one voter and submissions with the first token, served one at a
\* time, first requests of rate windows, and a clock that may run ahead of the session
\* timers and of the cleanup pass
NextSweep ==
    \/ /\ Quiescent
       /\ \E r \in VoteReqs : VoteSameToken(r)
    \/ \E r \in VoteReqs : VoteAfterSettings(r)
    \/ \E r \in VoteReqs : VoteReadStudents(r, TRUE)
    \/ \E r \in VoteReqs : VoteAfterStudents(r)
    \/ \E r \in VoteReqs : CommitOk(r)
    \/ /\ Quiescent
       /\ \E c \in CheckReqs : CheckReadStudents(c, 1, TRUE)
    \/ \E c \in CheckReqs : CheckAfterStudents(c)
    \/ \E ip \in Clients : FirstInWindow(ip)
    \/ EnableVotingOnce
    \/ Tick
    \/ \E t \in Tokens : SessionTimer(t)
    \/ Sweeper

SpecSweep == Init /\ [][NextSweep]_vars

\* ---- C38 ----
\* a cleanup pass runs in this step
SweepStep == swept' # swept

\* the entry x of the map m is in the map after the step, unchanged
KeptAsIs(m, mAfter, x) == x \in DOMAIN mAfter /\ mAfter[x] = m[x]

\* C38: a cleanup pass leaves unchanged every VerifiedSession and every VotingLock
\* whose age is at most sessionTimeout and every rate window whose reset time has not
\* passed, adds no entry to the three maps, and leaves settings.json, the tally and the
\* roll as they were.
SweepRemovesOnlyExpired ==
    [][ SweepStep =>
          /\ \A t \in DOMAIN verifiedSessions :
                (now - verifiedSessions[t].timestamp <= sessionTimeout)
                   => KeptAsIs(verifiedSessions, verifiedSessions', t)
          /\ \A k \in DOMAIN votingSessions :
                (now - votingSessions[k].timestamp <= sessionTimeout)
                   => KeptAsIs(votingSessions, votingSessions', k)
          /\ \A ip \in DOMAIN rateLimitMap :
                (now <= rateLimitMap[ip].resetTime)
                   => KeptAsIs(rateLimitMap, rateLimitMap', ip)
          /\ DOMAIN verifiedSessions' \subseteq DOMAIN verifiedSessions
          /\ DOMAIN votingSessions' \subseteq DOMAIN votingSessions
          /\ DOMAIN rateLimitMap' \subseteq DOMAIN rateLimitMap
          /\ UNCHANGED << settingsFile, votesFile, studentsFile >> ]_vars

\* the last cleanup pass met a VerifiedSession, a VotingLock and a rate window that had
\* not expired, all three are still there, one of them a session of age sessionTimeout,
\* and a session issued before is gone while the roll is empty
SweepKeptLiveEntries ==
    /\ swept.at = now
    /\ swept.kept = {"session", "lock", "window"}
    /\ \E t \in DOMAIN verifiedSessions :
          /\ now - verifiedSessions[t].timestamp = sessionTimeout
          /\ \E u \in 1..(t - 1) : u \notin DOMAIN verifiedSessions
    /\ \E k \in DOMAIN votingSessions : votingSessions[k].timestamp < now
    /\ \E ip \in DOMAIN rateLimitMap : now <= rateLimitMap[ip].resetTime
    /\ studentsFile = emptyStudents

\* ---- a client that keeps sending requests ----

\* requests at the limiter, the clock and the cleanup pass
NextRateLive ==
    \/ \E ip \in Clients : RateLimit(ip)
    \/ Tick
    \/ Sweeper

\* time goes on and every client keeps sending requests
SpecRateLive ==
    /\ Init
    /\ [][NextRateLive]_vars
    /\ WF_vars(Tick)
    /\ \A ip \in Clients : WF_vars(RateLimit(ip))

\* ---- C39 ----
\* the last decision of the limiter was to reject a request of client ip
Rejected(ip) == rateLast = [ip |-> ip, outcome |-> "RateLimited"]

\* the limiter rejects a request of client ip in this step
RejectStep(ip) == RateLimit(ip) /\ rateLast'.outcome = "RateLimited"

\* C39: a request rejected with RateLimited leaves the count and the reset time of the
\* client's window unchanged; a request that arrives after the reset time of a window
\* that had reached maxRequests is admitted and opens a window with count 1; and a
\* client that was rejected and keeps sending requests is admitted again (up to the end
\* of the modelled time).
RejectionKeepsWindow ==
    /\ [][ \A ip \in Clients :
             RejectStep(ip) =>
                 /\ ip \in DOMAIN rateLimitMap
                 /\ rateLimitMap'[ip].count = rateLimitMap[ip].count
                 /\ rateLimitMap'[ip].resetTime = rateLimitMap[ip].resetTime ]_vars
    /\ [][ \A ip \in Clients :
             (RateLimit(ip) /\ ip \in DOMAIN rateLimitMap
                 /\ rateLimitMap[ip].count >= maxRequests
                 /\ now > rateLimitMap[ip].resetTime) =>
                 /\ rateLast' = [ip |-> ip, outcome |-> "next"]
                 /\ rateLimitMap'[ip] = [count |-> 1, resetTime |-> now + windowMs] ]_vars
    /\ \A ip \in Clients :
          (Rejected(ip) /\ now < MaxTicks * sweepInterval)
             ~> (rateLast = [ip |-> ip, outcome |-> "next"])

\* a request of a client found the client's used-up window in the table after its
\* reset time, was admitted and opened a window with count 1
ReadmittedAfterWindow ==
    \E ip \in readmitted :
        /\ rateLast = [ip |-> ip, outcome |-> "next"]
        /\ ip \in DOMAIN rateLimitMap
        /\ rateLimitMap[ip] = [count |-> 1, resetTime |-> now + windowMs]
        /\ admitted[ip].n = 1

====
